---- MODULE Spec2Model ----
(***************************************************************************)
(* A model of the laboratory calculators of labrat (labrat/wetlab):        *)
(*   - generate_qpcr_plate_layout   (pcr.py)         SpecPlate             *)
(*   - calculate_mastermix          (pcr.py)         SpecMix               *)
(*   - calculate_dilution           (dilutions.py)   SpecDilution          *)
(*   - serial_dilution              (dilutions.py)   SpecSerial            *)
(*   - create_dilution_series       (dilutions.py)   SpecSeries            *)
(*   - plate_based_dilution         (dilutions.py)   SpecWells             *)
(*   - BufferRecipe.scale, get_buffer_recipe, calculate_buffer_volume      *)
(*                                  (buffers.py)     SpecScale,            *)
(*                                  SpecBuffers, SpecBuffersOwned,         *)
(*                                  SpecLookup                             *)
(*   - two calls run concurrently                    SpecConcurrent        *)
(* Every calculator is a function call.  A call is modelled as a small     *)
(* state machine: `args' holds the arguments, `pc' the position in the     *)
(* function body, `locals' the local variables, and `ret' / `err' the      *)
(* value returned or the exception raised.  Each calculator has its own    *)
(* specification, whose initial states enumerate the arguments of the      *)
(* call.                                                                   *)
(***************************************************************************)
EXTENDS Integers, Sequences, FiniteSets, TLC

VARIABLES args, pc, locals, ret, err

vars == <<args, pc, locals, ret, err>>

\* A cell of the layout not yet written
None == <<>>

\* ret is the empty sequence until the call returns, then <<value>>
NoReturn == <<>>

\* err while no exception has been raised
NoError == [kind |-> "None", msg |-> ""]

\* The names of the samples and genes of a call, and the NTC pseudo sample
SampleName(i) == <<"S", i>>
GeneName(i) == <<"G", i>>
NTC == <<"NTC">>

(***************************************************************************)
(* Bounds of the enumerated arguments.                                     *)
(***************************************************************************)
MaxSamples == 3
MaxGenes == 25
MaxReplicates == 4

(***************************************************************************)
(*                     generate_qpcr_plate_layout                          *)
(***************************************************************************)

\* The plate sizes tried: the two supported ones and an unsupported one.
PlateSizes == {96, 384, 48}

\* row_labels is a Python string; here the sequence of its characters.
AllRowLabels == <<"A", "B", "C", "D", "E", "F", "G", "H",
                  "I", "J", "K", "L", "M", "N", "O", "P">>

PlateGeometrySwapped(plate_size) ==
    IF plate_size = 96
    THEN [rows |-> 12, cols |-> 8, row_labels |-> SubSeq(AllRowLabels, 1, 12)]
    ELSE IF plate_size = 384
    THEN [rows |-> 24, cols |-> 16, row_labels |-> SubSeq(AllRowLabels, 1, 16)]
    ELSE [rows |-> 0, cols |-> 0, row_labels |-> <<>>]

\* pcr.py 278-285: rows, cols and row_labels of a plate size; rows = 0 stands
\* for the else branch (the size is unsupported, ValueError).
PlateGeometry(plate_size) ==
    IF plate_size = 96
    THEN [rows |-> 8, cols |-> 12, row_labels |-> SubSeq(AllRowLabels, 1, 8)]
    ELSE IF plate_size = 384
    THEN [rows |-> 16, cols |-> 24, row_labels |-> SubSeq(AllRowLabels, 1, 16)]
    ELSE [rows |-> 0, cols |-> 0, row_labels |-> <<>>]

\* pcr.py 288-290
WellsPerGene(samples, replicates, include_ntc) ==
    Len(samples) * replicates + (IF include_ntc THEN replicates ELSE 0)

\* pcr.py 292
TotalWellsNeeded(samples, genes, replicates, include_ntc) ==
    WellsPerGene(samples, replicates, include_ntc) * Len(genes)

NotEnoughWellsNever(total_wells_needed, available_wells) == FALSE

\* pcr.py 295: the capacity pre-check
NotEnoughWells(total_wells_needed, available_wells) ==
    total_wells_needed > available_wells

WrapCursorSameColumn(current_row, current_col, rows) ==
    IF current_row >= rows
    THEN [row |-> 0, col |-> current_col]
    ELSE [row |-> current_row, col |-> current_col]

\* pcr.py 313-315 and 333-335: the cursor wraps to the top of the next column
WrapCursor(current_row, current_col, rows) ==
    IF current_row >= rows
    THEN [row |-> 0, col |-> current_col + 1]
    ELSE [row |-> current_row, col |-> current_col]

NextGeneCursorSameColumn(current_row, current_col) ==
    [row |-> current_row, col |-> current_col]

\* pcr.py 347-349: the cursor moves to the top of the next column
NextGeneCursor(current_row, current_col) ==
    [row |-> 0, col |-> current_col + 1]

WellIdZeroBasedColumn(row_labels, current_row, current_col) ==
    <<row_labels[current_row + 1], current_col>>

\* pcr.py 320 and 337: f"{row_labels[current_row]}{current_col + 1}", one
\* letter followed by a decimal number, kept here as the pair of the two.
WellId(row_labels, current_row, current_col) ==
    <<row_labels[current_row + 1], current_col + 1>>

\* pcr.py 302: rows x cols cells, all None; cells are indexed from 0.
EmptyLayout(rows, cols) ==
    [cell \in (0 .. rows - 1) \X (0 .. cols - 1) |-> None]

PlateLocals0 ==
    [rows |-> 0, cols |-> 0, row_labels |-> <<>>,
     wells_per_gene |-> 0, total_wells_needed |-> 0, available_wells |-> 0,
     layout |-> <<>>, well_assignments |-> <<>>,
     current_row |-> 0, current_col |-> 0,
     gene_i |-> 0, sample_i |-> 0, rep |-> 0,
     writes |-> 0]

\* A call generate_qpcr_plate_layout(samples, genes, replicates, include_ntc,
\* plate_size); samples and genes are lists of distinct names, and replicates
\* is any int, the negative ones included (nothing validates it).
InitPlate ==
    /\ args \in [samples : {[i \in 1 .. n |-> SampleName(i)] : n \in 0 .. MaxSamples},
                 genes : {[i \in 1 .. n |-> GeneName(i)] : n \in 0 .. MaxGenes},
                 replicates : (-1) .. MaxReplicates,
                 include_ntc : BOOLEAN,
                 plate_size : PlateSizes]
    /\ pc = "plate_size"
    /\ locals = PlateLocals0
    /\ ret = NoReturn
    /\ err = NoError

\* pcr.py 278-285
CheckPlateSize ==
    /\ pc = "plate_size"
    /\ LET g == PlateGeometry(args.plate_size) IN
         IF g.rows = 0
         THEN /\ pc' = "raised"
              /\ err' = [kind |-> "ValueError", msg |-> "Plate size must be 96 or 384"]
              /\ UNCHANGED locals
         ELSE /\ pc' = "capacity"
              /\ locals' = [locals EXCEPT !.rows = g.rows, !.cols = g.cols,
                                          !.row_labels = g.row_labels]
              /\ UNCHANGED err
    /\ UNCHANGED <<args, ret>>

\* pcr.py 287-307
CheckCapacity ==
    /\ pc = "capacity"
    /\ LET wpg == WellsPerGene(args.samples, args.replicates, args.include_ntc)
           total == TotalWellsNeeded(args.samples, args.genes, args.replicates,
                                     args.include_ntc)
           avail == locals.rows * locals.cols
       IN IF NotEnoughWells(total, avail)
          THEN /\ pc' = "raised"
               /\ err' = [kind |-> "ValueError", msg |-> "Not enough wells"]
               /\ locals' = [locals EXCEPT !.wells_per_gene = wpg,
                                           !.total_wells_needed = total,
                                           !.available_wells = avail]
          ELSE /\ pc' = "for_gene"
               /\ locals' = [locals EXCEPT !.wells_per_gene = wpg,
                                           !.total_wells_needed = total,
                                           !.available_wells = avail,
                                           !.layout = EmptyLayout(locals.rows, locals.cols),
                                           !.well_assignments = <<>>,
                                           !.current_col = 0,
                                           !.current_row = 0,
                                           !.gene_i = 0]
               /\ UNCHANGED err
    /\ UNCHANGED <<args, ret>>

\* pcr.py 309: for gene in genes
ForGene ==
    /\ pc = "for_gene"
    /\ IF locals.gene_i < Len(args.genes)
       THEN /\ pc' = "for_sample"
            /\ locals' = [locals EXCEPT !.gene_i = @ + 1, !.sample_i = 0]
       ELSE /\ pc' = "summary"
            /\ UNCHANGED locals
    /\ UNCHANGED <<args, ret, err>>

ForSampleSkippingNtc ==
    /\ pc = "for_sample"
    /\ IF locals.sample_i < Len(args.samples)
       THEN /\ pc' = "for_rep"
            /\ locals' = [locals EXCEPT !.sample_i = @ + 1, !.rep = 0]
       ELSE /\ pc' = "next_gene"
            /\ UNCHANGED locals
    /\ UNCHANGED <<args, ret, err>>

\* pcr.py 311: for sample in samples, and 331: if include_ntc
ForSample ==
    /\ pc = "for_sample"
    /\ IF locals.sample_i < Len(args.samples)
       THEN /\ pc' = "for_rep"
            /\ locals' = [locals EXCEPT !.sample_i = @ + 1, !.rep = 0]
       ELSE IF args.include_ntc
       THEN /\ pc' = "for_ntc_rep"
            /\ locals' = [locals EXCEPT !.rep = 0]
       ELSE /\ pc' = "next_gene"
            /\ UNCHANGED locals
    /\ UNCHANGED <<args, ret, err>>

\* pcr.py 312-328: one iteration of for rep in range(replicates)
PlaceSampleWell ==
    /\ pc = "for_rep"
    /\ IF locals.rep < args.replicates
       THEN LET cur == WrapCursor(locals.current_row, locals.current_col, locals.rows)
                well_id == WellId(locals.row_labels, cur.row, cur.col)
                sample == args.samples[locals.sample_i]
                gene == args.genes[locals.gene_i]
            IN IF cur.col >= locals.cols
               THEN /\ pc' = "raised"
                    /\ err' = [kind |-> "ValueError", msg |-> "Exceeded plate capacity"]
                    /\ locals' = [locals EXCEPT !.current_row = cur.row,
                                                !.current_col = cur.col]
               ELSE /\ pc' = "for_rep"
                    /\ locals' = [locals EXCEPT
                           !.layout = [@ EXCEPT ![<<cur.row, cur.col>>] =
                                           <<sample, gene, locals.rep + 1>>],
                           !.well_assignments =
                               (well_id :> [sample |-> sample, gene |-> gene,
                                            replicate |-> locals.rep + 1,
                                            type |-> "sample"]) @@ @,
                           !.current_row = cur.row + 1,
                           !.current_col = cur.col,
                           !.rep = @ + 1,
                           !.writes = @ + 1]
                    /\ UNCHANGED err
       ELSE /\ pc' = "for_sample"
            /\ UNCHANGED <<locals, err>>
    /\ UNCHANGED <<args, ret>>

\* pcr.py 332-345: one iteration of the NTC loop; it has no column check, so
\* layout[current_row][current_col] raises IndexError past the last column.
PlaceNtcWell ==
    /\ pc = "for_ntc_rep"
    /\ IF locals.rep < args.replicates
       THEN LET cur == WrapCursor(locals.current_row, locals.current_col, locals.rows)
                well_id == WellId(locals.row_labels, cur.row, cur.col)
                gene == args.genes[locals.gene_i]
            IN IF cur.col >= locals.cols
               THEN /\ pc' = "raised"
                    /\ err' = [kind |-> "IndexError", msg |-> "list assignment index out of range"]
                    /\ locals' = [locals EXCEPT !.current_row = cur.row,
                                                !.current_col = cur.col]
               ELSE /\ pc' = "for_ntc_rep"
                    /\ locals' = [locals EXCEPT
                           !.layout = [@ EXCEPT ![<<cur.row, cur.col>>] =
                                           <<NTC, gene, locals.rep + 1>>],
                           !.well_assignments =
                               (well_id :> [sample |-> NTC, gene |-> gene,
                                            replicate |-> locals.rep + 1,
                                            type |-> "ntc"]) @@ @,
                           !.current_row = cur.row + 1,
                           !.current_col = cur.col,
                           !.rep = @ + 1,
                           !.writes = @ + 1]
                    /\ UNCHANGED err
       ELSE /\ pc' = "next_gene"
            /\ UNCHANGED <<locals, err>>
    /\ UNCHANGED <<args, ret>>

\* pcr.py 347-349
NextGene ==
    /\ pc = "next_gene"
    /\ LET cur == NextGeneCursor(locals.current_row, locals.current_col) IN
         locals' = [locals EXCEPT !.current_row = cur.row, !.current_col = cur.col]
    /\ pc' = "for_gene"
    /\ UNCHANGED <<args, ret, err>>

\* pcr.py 351-367 (the utilization string is display only and left out)
ReturnLayout ==
    /\ pc = "summary"
    /\ pc' = "returned"
    /\ ret' = <<[layout |-> locals.layout,
               well_assignments |-> locals.well_assignments,
               summary |-> [total_samples |-> Len(args.samples),
                            total_genes |-> Len(args.genes),
                            replicates |-> args.replicates,
                            include_ntc |-> args.include_ntc,
                            wells_used |-> Cardinality(DOMAIN locals.well_assignments),
                            wells_available |-> locals.available_wells],
               row_labels |-> locals.row_labels,
               col_labels |-> [i \in 1 .. locals.cols |-> i]]>>
    /\ UNCHANGED <<args, locals, err>>

NextPlate ==
    \/ CheckPlateSize
    \/ CheckCapacity
    \/ ForGene
    \/ ForSample
    \/ PlaceSampleWell
    \/ PlaceNtcWell
    \/ NextGene
    \/ ReturnLayout

SpecPlate == InitPlate /\ [][NextPlate]_vars

\* The call is one thread of sequential code: whenever a next statement
\* exists it is executed, so the steps of the call are weakly fair.
SpecPlateFair == SpecPlate /\ WF_vars(NextPlate)

(***************************************************************************)
(*                        Real numbers                                     *)
(* The calculators work on Python floats.  A float is modelled by the      *)
(* exact rational it stands for, a record [n, d] in lowest terms with      *)
(* d > 0.                                                                  *)
(***************************************************************************)

Abs(x) == IF x < 0 THEN 0 - x ELSE x

RECURSIVE GCD(_, _)
GCD(a, b) == IF b = 0 THEN a ELSE GCD(b, a % b)

\* n / d in lowest terms, d # 0
Rat(n, d) ==
    LET g == GCD(Abs(n), Abs(d))
        sgn == IF d < 0 THEN 0 - 1 ELSE 1
    IN [n |-> sgn * (n \div g), d |-> sgn * (d \div g)]

RatMul(a, b) == Rat(a.n * b.n, a.d * b.d)
RatDiv(a, b) == Rat(a.n * b.d, a.d * b.n)
RatAdd(a, b) == Rat(a.n * b.d + b.n * a.d, a.d * b.d)
RatSub(a, b) == Rat(a.n * b.d - b.n * a.d, a.d * b.d)
RatEq(a, b) == a.n * b.d = b.n * a.d
RatLt(a, b) == a.n * b.d < b.n * a.d
RatLe(a, b) == a.n * b.d <= b.n * a.d
RatAbs(a) == [n |-> Abs(a.n), d |-> a.d]
Zero == Rat(0, 1)
One == Rat(1, 1)

(***************************************************************************)
(*                        calculate_dilution                               *)
(***************************************************************************)

MaxConc == 4
MaxVolumeEighths == 10

RoundHundredthsDown(x) == (100 * x.n) \div x.d

\* Python's round(x, 2) of a non-negative float, as a number of hundredths:
\* the nearest hundredth, a tie going to the even one.
RoundHundredths(x) ==
    LET t == 100 * x.n
        fl == t \div x.d
        rem == t % x.d
    IN IF 2 * rem < x.d THEN fl
       ELSE IF 2 * rem > x.d THEN fl + 1
       ELSE IF fl % 2 = 0 THEN fl ELSE fl + 1

\* dilutions.py 181-182: round(value, 2)
Round2(x) == Rat(RoundHundredths(x), 100)

FinalExceedsOrEqualsInitial(final_conc, initial_conc) == RatLe(initial_conc, final_conc)

\* dilutions.py 170
FinalExceedsInitial(final_conc, initial_conc) == RatLt(initial_conc, final_conc)

\* dilutions.py 173
NotAllPositive(initial_conc, final_conc, final_volume) ==
    RatLe(initial_conc, Zero) \/ RatLe(final_conc, Zero) \/ RatLe(final_volume, Zero)

\* dilutions.py 177
StockVolume(initial_conc, final_conc, final_volume) ==
    RatDiv(RatMul(final_conc, final_volume), initial_conc)

\* dilutions.py 178
DiluentVolume(final_volume, stock_volume) == RatSub(final_volume, stock_volume)

\* The concentrations tried.  Those that are a multiple of 5 are left out:
\* with them a quotient can fall on a rounding tie that no float represents
\* (0.025), where round() follows the representation error of the float.
\* With the others every tie is a multiple of 1/8, which a float holds
\* exactly, and round() is the round-half-even of RoundHundredths.
DilutionConcs == {c \in (-1) .. MaxConc : c % 5 # 0 \/ c = 0}

DilutionLocals0 == [stock_volume |-> Zero, diluent_volume |-> Zero]

\* A call calculate_dilution(initial_conc, final_conc, final_volume); the
\* volume is a number of eighths.
InitDilution ==
    /\ args \in [initial_conc : {Rat(c, 1) : c \in DilutionConcs},
                 final_conc : {Rat(c, 1) : c \in DilutionConcs},
                 final_volume : {Rat(v, 8) : v \in (-1) .. MaxVolumeEighths}]
    /\ pc = "check_exceeds"
    /\ locals = DilutionLocals0
    /\ ret = NoReturn
    /\ err = NoError

\* dilutions.py 170-171
CheckFinalExceedsInitial ==
    /\ pc = "check_exceeds"
    /\ IF FinalExceedsInitial(args.final_conc, args.initial_conc)
       THEN /\ pc' = "raised"
            /\ err' = [kind |-> "ValueError",
                       msg |-> "Final concentration cannot exceed initial concentration"]
       ELSE /\ pc' = "check_positive"
            /\ UNCHANGED err
    /\ UNCHANGED <<args, locals, ret>>

\* dilutions.py 173-174
CheckAllPositive ==
    /\ pc = "check_positive"
    /\ IF NotAllPositive(args.initial_conc, args.final_conc, args.final_volume)
       THEN /\ pc' = "raised"
            /\ err' = [kind |-> "ValueError", msg |-> "All values must be positive"]
       ELSE /\ pc' = "compute"
            /\ UNCHANGED err
    /\ UNCHANGED <<args, locals, ret>>

\* dilutions.py 176-185
ComputeDilution ==
    /\ pc = "compute"
    /\ LET stock_volume == StockVolume(args.initial_conc, args.final_conc,
                                       args.final_volume)
           diluent_volume == DiluentVolume(args.final_volume, stock_volume)
       IN /\ locals' = [stock_volume |-> stock_volume,
                        diluent_volume |-> diluent_volume]
          /\ ret' = <<[stock_volume |-> Round2(stock_volume),
                       diluent_volume |-> Round2(diluent_volume),
                       final_volume |-> args.final_volume,
                       dilution_factor |-> RatDiv(args.initial_conc, args.final_conc)]>>
    /\ pc' = "returned"
    /\ UNCHANGED <<args, err>>

NextDilution ==
    \/ CheckFinalExceedsInitial
    \/ CheckAllPositive
    \/ ComputeDilution

SpecDilution == InitDilution /\ [][NextDilution]_vars

(***************************************************************************)
(*                          serial_dilution                                *)
(***************************************************************************)

MaxFactorHalves == 6
MaxDilutions == 3
MaxVolume == 4

FactorBelowOne(factor) == RatLt(factor, One)

\* dilutions.py 104
FactorTooSmall(factor) == RatLe(factor, One)

\* dilutions.py 107
TransferTooLarge(transfer_volume, final_volume) == RatLe(final_volume, transfer_volume)

\* dilutions.py 114: abs(actual_factor - factor) > 0.01
FactorsDiffer(actual_factor, factor) ==
    RatLt(Rat(1, 100), RatAbs(RatSub(actual_factor, factor)))

NextConcentrationByActualFactor(last, factor, actual_factor) ==
    IF actual_factor.n = 0 THEN last ELSE RatDiv(last, actual_factor)

\* dilutions.py 122: next_conc = concentrations[-1] / factor; actual_factor,
\* computed at 112-117, takes no part in it.
NextConcentration(last, factor, actual_factor) == RatDiv(last, factor)

SerialLocals0 ==
    [expected_transfer |-> Zero, actual_factor |-> Zero, diluent_volume |-> Zero,
     concentrations |-> <<>>, i |-> 0]

\* A call serial_dilution(initial_concentration, factor, dilutions,
\* transfer_volume, final_volume); factor is a number of halves, and
\* dilutions is any int (nothing validates it).
InitSerial ==
    /\ args \in [initial_concentration : {Rat(c, 1) : c \in (-1) .. MaxConc},
                 factor : {Rat(f, 2) : f \in 1 .. MaxFactorHalves},
                 dilutions : (-1) .. MaxDilutions,
                 transfer_volume : {Rat(v, 1) : v \in (-1) .. MaxVolume},
                 final_volume : {Rat(v, 1) : v \in 0 .. MaxVolume}]
    /\ pc = "check_factor"
    /\ locals = SerialLocals0
    /\ ret = NoReturn
    /\ err = NoError

\* dilutions.py 104-105
CheckFactor ==
    /\ pc = "check_factor"
    /\ IF FactorTooSmall(args.factor)
       THEN /\ pc' = "raised"
            /\ err' = [kind |-> "ValueError",
                       msg |-> "Dilution factor must be greater than 1"]
       ELSE /\ pc' = "check_transfer"
            /\ UNCHANGED err
    /\ UNCHANGED <<args, locals, ret>>

\* dilutions.py 107-108
CheckTransferVolume ==
    /\ pc = "check_transfer"
    /\ IF TransferTooLarge(args.transfer_volume, args.final_volume)
       THEN /\ pc' = "raised"
            /\ err' = [kind |-> "ValueError",
                       msg |-> "Transfer volume must be less than final volume"]
       ELSE /\ pc' = "actual_factor"
            /\ UNCHANGED err
    /\ UNCHANGED <<args, locals, ret>>

\* dilutions.py 110-120: final_volume / transfer_volume divides by zero when
\* transfer_volume is 0.
ComputeActualFactor ==
    /\ pc = "actual_factor"
    /\ IF args.transfer_volume.n = 0
       THEN /\ pc' = "raised"
            /\ err' = [kind |-> "ZeroDivisionError", msg |-> "float division by zero"]
            /\ locals' = [locals EXCEPT
                   !.expected_transfer = RatDiv(args.final_volume, args.factor)]
       ELSE LET actual_factor == RatDiv(args.final_volume, args.transfer_volume)
                diluent_volume == RatSub(args.final_volume, args.transfer_volume)
            IN /\ pc' = "for_dilution"
               /\ locals' = [locals EXCEPT
                      !.expected_transfer = RatDiv(args.final_volume, args.factor),
                      !.actual_factor =
                          IF FactorsDiffer(actual_factor, args.factor)
                          THEN RatDiv(RatAdd(args.transfer_volume, diluent_volume),
                                      args.transfer_volume)
                          ELSE actual_factor,
                      !.diluent_volume =
                          IF FactorsDiffer(actual_factor, args.factor)
                          THEN diluent_volume ELSE @,
                      !.concentrations = <<args.initial_concentration>>,
                      !.i = 0]
               /\ UNCHANGED err
    /\ UNCHANGED <<args, ret>>

\* dilutions.py 121-123: one iteration of for i in range(dilutions)
AppendConcentration ==
    /\ pc = "for_dilution"
    /\ locals.i < args.dilutions
    /\ LET last == locals.concentrations[Len(locals.concentrations)]
           next_conc == NextConcentration(last, args.factor, locals.actual_factor)
       IN locals' = [locals EXCEPT !.concentrations = Append(@, next_conc),
                                   !.i = @ + 1]
    /\ UNCHANGED <<args, pc, ret, err>>

\* dilutions.py 125-147
ReturnSeries ==
    /\ pc = "for_dilution"
    /\ ~(locals.i < args.dilutions)
    /\ LET diluent_volume == RatSub(args.final_volume, args.transfer_volume)
           n == Rat(args.dilutions, 1)
       IN /\ locals' = [locals EXCEPT !.diluent_volume = diluent_volume]
          /\ ret' = <<[initial_concentration |-> args.initial_concentration,
                       dilution_factor |-> args.factor,
                       num_dilutions |-> args.dilutions,
                       transfer_volume |-> args.transfer_volume,
                       final_volume |-> args.final_volume,
                       concentrations |-> locals.concentrations,
                       volumes |->
                          [transfer_per_step |-> args.transfer_volume,
                           diluent_per_step |-> diluent_volume,
                           total_diluent_needed |-> RatMul(diluent_volume, n),
                           total_transfers |-> RatMul(args.transfer_volume, n),
                           stock_volume_needed |-> args.transfer_volume]]>>
    /\ pc' = "returned"
    /\ UNCHANGED <<args, err>>

NextSerial ==
    \/ CheckFactor
    \/ CheckTransferVolume
    \/ ComputeActualFactor
    \/ AppendConcentration
    \/ ReturnSeries

SpecSerial == InitSerial /\ [][NextSerial]_vars

(***************************************************************************)
(*            Properties of generate_qpcr_plate_layout                     *)
(***************************************************************************)

PlateSupported == args.plate_size \in {96, 384}

PastCapacityCheck == pc \notin {"plate_size", "capacity"}

ArgsTotalNeeded ==
    (Len(args.samples) * args.replicates
       + (IF args.include_ntc THEN args.replicates ELSE 0)) * Len(args.genes)

WellsOfColumn(wa, c) == {w \in DOMAIN wa : w[2] = c}

GenesOfColumn(wa, c) == {wa[w].gene : w \in WellsOfColumn(wa, c)}

ColumnsOfGene(wa, g) == {w[2] : w \in {x \in DOMAIN wa : wa[x].gene = g}}

SetMax(S) == CHOOSE x \in S : \A y \in S : y <= x

\* C1: on a supported plate, a request that needs more wells than rows*cols
\* fails with the "Not enough wells" error before any well is assigned, and
\* returns no layout.
C1_CapacityErrorBeforeAssignment ==
    (PlateSupported /\ PastCapacityCheck
        /\ ArgsTotalNeeded > locals.rows * locals.cols)
    => /\ pc = "raised"
       /\ err = [kind |-> "ValueError", msg |-> "Not enough wells"]
       /\ locals.writes = 0
       /\ DOMAIN locals.well_assignments = {}
       /\ ret = NoReturn

C1_Witness ==
    /\ pc = "raised"
    /\ err.msg = "Not enough wells"
    /\ args.plate_size = 384
    /\ ArgsTotalNeeded > 384

\* C2: once the capacity pre-check has passed, the column cursor never
\* reaches cols while a well is assigned: no error is raised after the
\* pre-check, and the call is not stopped short of a layout.
C2_OverflowUnreachable ==
    (PlateSupported /\ ArgsTotalNeeded <= locals.rows * locals.cols
        /\ PastCapacityCheck)
    => /\ pc # "raised"
       /\ (pc \in {"for_rep", "for_ntc_rep"} /\ locals.rep < args.replicates) =>
             WrapCursor(locals.current_row, locals.current_col, locals.rows).col
                < locals.cols

\* C3 as stated: no placement writes an assigned well, and every returned
\* layout has wells_used = |well_assignments| = total_needed <= rows*cols.
C3_WellsUsedIsTotalNeeded ==
    /\ locals.writes = Cardinality(DOMAIN locals.well_assignments)
    /\ pc = "returned" =>
         /\ ret[1].summary.wells_used = Cardinality(DOMAIN ret[1].well_assignments)
         /\ ret[1].summary.wells_used = ArgsTotalNeeded
         /\ ret[1].summary.wells_used <= locals.rows * locals.cols

\* C3 amended: no placement writes an assigned well, and every returned
\* layout has wells_used = |well_assignments| <= rows*cols, which is
\* total_needed when replicates >= 0 and 0 when replicates is negative.
C3_WellsUsedIsTotalNeededNonNegative ==
    /\ locals.writes = Cardinality(DOMAIN locals.well_assignments)
    /\ pc = "returned" =>
         /\ ret[1].summary.wells_used = Cardinality(DOMAIN ret[1].well_assignments)
         /\ ret[1].summary.wells_used = locals.writes
         /\ ret[1].summary.wells_used =
                (IF args.replicates >= 0 THEN ArgsTotalNeeded ELSE 0)
         /\ ret[1].summary.wells_used <= locals.rows * locals.cols

C3_Witness ==
    /\ pc = "returned"
    /\ args.include_ntc
    /\ Len(args.genes) >= 2
    /\ locals.wells_per_gene > locals.rows
    /\ ret[1].summary.wells_used = ArgsTotalNeeded

\* C4: in a returned layout no plate column holds wells of two different
\* genes, and the first well of every gene after the first one is at row
\* label A of the column that follows the last column of the gene before it.
C4_GeneNeverSharesColumn ==
    pc = "returned" =>
      LET wa == ret[1].well_assignments IN
        /\ \A c \in 1 .. locals.cols : Cardinality(GenesOfColumn(wa, c)) <= 1
        /\ \A g \in 2 .. Len(args.genes) :
             LET mine == ColumnsOfGene(wa, args.genes[g])
                 before == ColumnsOfGene(wa, args.genes[g - 1])
             IN mine # {} =>
                  /\ before # {}
                  /\ \A c \in mine : c > SetMax(before)
                  /\ <<"A", SetMax(before) + 1>> \in DOMAIN wa
                  /\ wa[<<"A", SetMax(before) + 1>>].gene = args.genes[g]
                  /\ wa[<<"A", SetMax(before) + 1>>].replicate = 1
                  /\ wa[<<"A", SetMax(before) + 1>>].sample =
                       (IF Len(args.samples) > 0 THEN args.samples[1] ELSE NTC)

C4_Witness ==
    /\ pc = "returned"
    /\ Len(args.genes) >= 3
    /\ locals.wells_per_gene > locals.rows
    /\ locals.wells_per_gene % locals.rows # 0

\* C5: plate_size 96 gives 8 rows x 12 columns labelled A-H, 384 gives 16
\* rows x 24 columns labelled A-P, and any other size fails with the plate
\* size error whatever the other arguments, before the capacity check, and
\* returns no layout.
C5_PlateGeometry ==
    /\ (args.plate_size = 96 /\ pc # "plate_size") =>
          /\ locals.rows = 8 /\ locals.cols = 12
          /\ locals.row_labels = <<"A", "B", "C", "D", "E", "F", "G", "H">>
    /\ (args.plate_size = 384 /\ pc # "plate_size") =>
          /\ locals.rows = 16 /\ locals.cols = 24
          /\ locals.row_labels = <<"A", "B", "C", "D", "E", "F", "G", "H",
                                   "I", "J", "K", "L", "M", "N", "O", "P">>
    /\ (args.plate_size \notin {96, 384} /\ pc # "plate_size") =>
          /\ pc = "raised"
          /\ err = [kind |-> "ValueError", msg |-> "Plate size must be 96 or 384"]
          /\ ret = NoReturn
          /\ locals.writes = 0
    /\ pc = "returned" =>
          /\ Len(ret[1].row_labels) = locals.rows
          /\ Len(ret[1].col_labels) = locals.cols
          /\ ret[1].summary.wells_available = locals.rows * locals.cols
          /\ \A w \in DOMAIN ret[1].well_assignments :
                /\ w[2] \in 1 .. locals.cols
                /\ \E r \in 1 .. locals.rows : w[1] = locals.row_labels[r]

C5_Witness ==
    /\ pc = "raised"
    /\ args.plate_size \notin {96, 384}
    /\ ArgsTotalNeeded > 384
    /\ err.msg = "Plate size must be 96 or 384"

(***************************************************************************)
(*                 Properties of calculate_dilution                        *)
(***************************************************************************)

DilutionPreconditions ==
    /\ RatLt(Zero, args.initial_conc)
    /\ RatLt(Zero, args.final_conc)
    /\ RatLt(Zero, args.final_volume)
    /\ RatLe(args.final_conc, args.initial_conc)

\* C6: for every valid input the returned stock_volume plus the returned
\* diluent_volume equals final_volume.
C6_VolumesSumToFinalVolume ==
    pc = "returned" =>
       RatEq(RatAdd(ret[1].stock_volume, ret[1].diluent_volume), args.final_volume)

\* C7: calculate_dilution raises its ValueError, returning nothing, exactly
\* when a precondition is violated (a non-positive value, or final_conc above
\* initial_conc); every input that satisfies them all yields a result.
C7_FailsIffPreconditionViolated ==
    /\ pc = "raised" =>
          /\ ~DilutionPreconditions
          /\ err.kind = "ValueError"
          /\ ret = NoReturn
    /\ pc \in {"compute", "returned"} => DilutionPreconditions
    /\ pc = "returned" => Len(ret) = 1 /\ err = NoError

C7_Witness ==
    /\ pc = "raised"
    /\ err.msg = "All values must be positive"
    /\ RatLt(Zero, args.initial_conc)
    /\ RatEq(args.final_conc, args.initial_conc)
    /\ RatLe(args.final_volume, Zero)

\* C8: for every valid input stock_volume = final_conc * final_volume /
\* initial_conc, diluent_volume = final_volume - stock_volume and
\* dilution_factor = initial_conc / final_conc, with 0 <= stock_volume <=
\* final_volume, diluent_volume >= 0, dilution_factor >= 1, and final_volume
\* returned unchanged.
C8_DilutionFormulas ==
    pc = "returned" =>
       /\ RatEq(RatMul(ret[1].stock_volume, args.initial_conc),
                RatMul(args.final_conc, args.final_volume))
       /\ RatEq(ret[1].diluent_volume,
                RatSub(args.final_volume, ret[1].stock_volume))
       /\ RatEq(RatMul(ret[1].dilution_factor, args.final_conc), args.initial_conc)
       /\ RatLe(Zero, ret[1].stock_volume)
       /\ RatLe(ret[1].stock_volume, args.final_volume)
       /\ RatLe(Zero, ret[1].diluent_volume)
       /\ RatLe(One, ret[1].dilution_factor)
       /\ ret[1].final_volume = args.final_volume

\* C9: no rounding happens inside the calculator: the stock_volume and
\* diluent_volume that calculate_dilution returns are the computed values.
C9_ReturnedVolumesUnrounded ==
    pc = "returned" =>
       /\ RatEq(ret[1].stock_volume, locals.stock_volume)
       /\ RatEq(ret[1].diluent_volume, locals.diluent_volume)

(***************************************************************************)
(*                   Properties of serial_dilution                         *)
(***************************************************************************)

GeometricByFactor(concentrations, initial_concentration, factor) ==
    /\ Len(concentrations) >= 1
    /\ RatEq(concentrations[1], initial_concentration)
    /\ \A i \in 2 .. Len(concentrations) :
          RatEq(RatMul(concentrations[i], factor), concentrations[i - 1])

\* C10 as stated: every returned series starts at initial_concentration,
\* divides by the requested factor at every step, and has dilutions + 1
\* concentrations.
C10_GeometricSeries ==
    pc = "returned" =>
       /\ GeometricByFactor(ret[1].concentrations, args.initial_concentration,
                            args.factor)
       /\ Len(ret[1].concentrations) = args.dilutions + 1

\* C10 amended: every returned series starts at initial_concentration,
\* divides by the requested factor at every step, and has
\* max(dilutions, 0) + 1 concentrations.
C10_GeometricSeriesNonNegativeSteps ==
    pc = "returned" =>
       /\ GeometricByFactor(ret[1].concentrations, args.initial_concentration,
                            args.factor)
       /\ Len(ret[1].concentrations) =
             (IF args.dilutions > 0 THEN args.dilutions ELSE 0) + 1

C10_Witness ==
    /\ pc = "returned"
    /\ args.dilutions >= 2
    /\ args.initial_concentration.n > 0
    /\ ~RatEq(RatMul(args.factor, args.transfer_volume), args.final_volume)
    /\ Len(ret[1].concentrations) = args.dilutions + 1

\* C11: serial_dilution raises the factor error whenever factor <= 1,
\* whatever the volumes are, and the transfer-volume error whenever
\* factor > 1 and transfer_volume >= final_volume; neither returns a series.
C11_FactorThenTransferError ==
    /\ (pc # "check_factor" /\ RatLe(args.factor, One)) =>
          /\ pc = "raised"
          /\ err = [kind |-> "ValueError",
                    msg |-> "Dilution factor must be greater than 1"]
          /\ ret = NoReturn
          /\ locals.concentrations = <<>>
    /\ (pc \notin {"check_factor", "check_transfer"}
          /\ RatLt(One, args.factor)
          /\ RatLe(args.final_volume, args.transfer_volume)) =>
          /\ pc = "raised"
          /\ err = [kind |-> "ValueError",
                    msg |-> "Transfer volume must be less than final volume"]
          /\ ret = NoReturn
          /\ locals.concentrations = <<>>

C11_Witness ==
    /\ pc = "raised"
    /\ RatEq(args.factor, One)
    /\ RatLt(args.final_volume, args.transfer_volume)
    /\ err.msg = "Dilution factor must be greater than 1"

SeriesVolumeValues(series) == {series.volumes[k] : k \in DOMAIN series.volumes}

\* C12: a returned series (of at least one step, with positive volumes)
\* carries the requested factor and, next to it, the effective factor
\* final_volume / transfer_volume, so that a caller sees when the two differ.
C12_EffectiveFactorSurfaced ==
    (pc = "returned"
       /\ args.dilutions >= 1
       /\ RatLt(Zero, args.initial_concentration)
       /\ RatLt(Zero, args.transfer_volume)
       /\ ~RatEq(RatMul(args.factor, args.transfer_volume), args.final_volume))
    => /\ RatEq(ret[1].dilution_factor, args.factor)
       /\ \E v \in SeriesVolumeValues(ret[1]) :
             RatEq(RatMul(v, args.transfer_volume), args.final_volume)

(***************************************************************************)
(*                    Binary floating point                                *)
(* calculate_mastermix and BufferRecipe.scale are checked for exact        *)
(* equalities of sums and products, where the rounding of every float      *)
(* operation counts.  A Python float (IEEE 754 binary64) is modelled here  *)
(* by its exact value, a sign and a magnitude counted in units of          *)
(* 2^-(LimbBits * FracLimbs); the magnitude is a natural number of any     *)
(* size, written as the sequence of its digits in base Base, lowest digit  *)
(* first, without leading zero digits.  An operation computes the exact    *)
(* result and rounds it to Precision significant bits, ties to even, as    *)
(* the hardware does.  Values below 2^-25 and above 2^1023 do not occur.   *)
(***************************************************************************)

LimbBits == 13
Base == 8192
FracLimbs == 6
Precision == 53

RECURSIVE Pow2(_)
Pow2(k) == IF k = 0 THEN 1 ELSE 2 * Pow2(k - 1)

RECURSIVE BigNorm(_)
BigNorm(a) ==
    IF a = <<>> THEN <<>>
    ELSE IF a[Len(a)] = 0 THEN BigNorm(SubSeq(a, 1, Len(a) - 1))
    ELSE a

RECURSIVE BigOfInt(_)
BigOfInt(n) == IF n = 0 THEN <<>> ELSE <<n % Base>> \o BigOfInt(n \div Base)

Limb(a, i) == IF i <= Len(a) THEN a[i] ELSE 0

RECURSIVE BigAddFrom(_, _, _, _)
BigAddFrom(a, b, i, carry) ==
    IF i > Len(a) /\ i > Len(b)
    THEN (IF carry = 0 THEN <<>> ELSE <<carry>>)
    ELSE LET t == Limb(a, i) + Limb(b, i) + carry
         IN <<t % Base>> \o BigAddFrom(a, b, i + 1, t \div Base)

BigAdd(a, b) == BigAddFrom(a, b, 1, 0)

RECURSIVE BigSubFrom(_, _, _, _)
BigSubFrom(a, b, i, borrow) ==
    IF i > Len(a) THEN <<>>
    ELSE LET t == Limb(a, i) - Limb(b, i) - borrow
         IN IF t < 0
            THEN <<t + Base>> \o BigSubFrom(a, b, i + 1, 1)
            ELSE <<t>> \o BigSubFrom(a, b, i + 1, 0)

\* a - b for a >= b
BigSub(a, b) == BigNorm(BigSubFrom(a, b, 1, 0))

RECURSIVE BigCmpFrom(_, _, _)
BigCmpFrom(a, b, i) ==
    IF i = 0 THEN 0
    ELSE IF a[i] < b[i] THEN 0 - 1
    ELSE IF a[i] > b[i] THEN 1
    ELSE BigCmpFrom(a, b, i - 1)

\* -1, 0 or 1 as a < b, a = b or a > b
BigCmp(a, b) ==
    IF Len(a) < Len(b) THEN 0 - 1
    ELSE IF Len(a) > Len(b) THEN 1
    ELSE BigCmpFrom(a, b, Len(a))

RECURSIVE BigMulSmallFrom(_, _, _, _)
BigMulSmallFrom(a, m, i, carry) ==
    IF i > Len(a) THEN BigOfInt(carry)
    ELSE LET t == a[i] * m + carry
         IN <<t % Base>> \o BigMulSmallFrom(a, m, i + 1, t \div Base)

\* a * m for 0 <= m <= Base
BigMulSmall(a, m) == BigNorm(BigMulSmallFrom(a, m, 1, 0))

\* a * Base^k
BigShiftLimbs(a, k) == IF a = <<>> THEN <<>> ELSE [i \in 1 .. k |-> 0] \o a

RECURSIVE BigMulFrom(_, _, _)
BigMulFrom(a, b, i) ==
    IF i > Len(b) THEN <<>>
    ELSE BigAdd(BigShiftLimbs(BigMulSmall(a, b[i]), i - 1), BigMulFrom(a, b, i + 1))

BigMul(a, b) == BigMulFrom(a, b, 1)

RECURSIVE BigDivSmallFrom(_, _, _, _)
BigDivSmallFrom(a, d, i, rem) ==
    IF i = 0 THEN [q |-> <<>>, r |-> rem]
    ELSE LET t == rem * Base + a[i]
             rest == BigDivSmallFrom(a, d, i - 1, t % d)
         IN [q |-> rest.q \o <<t \div d>>, r |-> rest.r]

\* quotient and remainder of a by d, 0 < d < 2^17
BigDivSmall(a, d) ==
    LET res == BigDivSmallFrom(a, d, Len(a), 0)
    IN [q |-> BigNorm(res.q), r |-> res.r]

RECURSIVE IntBitLen(_)
IntBitLen(n) == IF n = 0 THEN 0 ELSE 1 + IntBitLen(n \div 2)

\* the number of bits of a
BigBitLen(a) == IF a = <<>> THEN 0 ELSE LimbBits * (Len(a) - 1) + IntBitLen(a[Len(a)])

\* a * 2^t
BigShiftLeft(a, t) ==
    BigShiftLimbs(BigMulSmall(a, Pow2(t % LimbBits)), t \div LimbBits)

\* a \div 2^t, and whether a nonzero bit was shifted out
BigShiftRight(a, t) ==
    LET k == t \div LimbBits
        low == SubSeq(a, 1, IF k < Len(a) THEN k ELSE Len(a))
        high == SubSeq(a, k + 1, Len(a))
        res == BigDivSmall(high, Pow2(t % LimbBits))
    IN [q |-> res.q,
        sticky |-> res.r # 0 \/ \E i \in DOMAIN low : low[i] # 0]

BigIsOdd(a) == a # <<>> /\ a[1] % 2 = 1

\* a, or a + sticky bits below it, rounded to Precision significant bits;
\* a tie goes to the even neighbour (IEEE 754 roundTiesToEven).
BigRound(a, sticky) ==
    LET s == BigBitLen(a) - Precision
    IN IF s <= 0 THEN a
       ELSE LET guarded == BigShiftRight(a, s - 1)
                q == BigShiftRight(guarded.q, 1).q
                up == BigIsOdd(guarded.q)
                        /\ (guarded.sticky \/ sticky \/ BigIsOdd(q))
            IN BigShiftLeft(IF up THEN BigAdd(q, <<1>>) ELSE q, s)

\* the float of magnitude mag, -0.0 being 0.0 here
Float(neg, mag) == [neg |-> neg /\ mag # <<>>, mag |-> mag]

FZero == Float(FALSE, <<>>)

\* float(n) of an int n, |n| < 2^31
FloatOfInt(n) == Float(n < 0, BigShiftLimbs(BigOfInt(Abs(n)), FracLimbs))

\* x / d for a float x and an int-valued divisor 0 < d < 2^17
FDivInt(x, d) ==
    LET res == BigDivSmall(BigShiftLimbs(x.mag, FracLimbs), d)
        rounded == BigRound(res.q, res.r # 0)
    IN Float(x.neg, SubSeq(rounded, FracLimbs + 1, Len(rounded)))

\* the float of the decimal literal n / d, d a power of ten
FloatOfDecimal(n, d) == FDivInt(FloatOfInt(n), d)

FMul(x, y) ==
    LET rounded == BigRound(BigMul(x.mag, y.mag), FALSE)
    IN Float(x.neg # y.neg, SubSeq(rounded, FracLimbs + 1, Len(rounded)))

\* x + y without rounding
ExactAdd(x, y) ==
    IF x.neg = y.neg THEN Float(x.neg, BigAdd(x.mag, y.mag))
    ELSE IF BigCmp(x.mag, y.mag) >= 0 THEN Float(x.neg, BigSub(x.mag, y.mag))
    ELSE Float(y.neg, BigSub(y.mag, x.mag))

FNeg(x) == Float(~x.neg, x.mag)

FAdd(x, y) == LET e == ExactAdd(x, y) IN Float(e.neg, BigRound(e.mag, FALSE))

FSub(x, y) == FAdd(x, FNeg(y))

FLt(x, y) ==
    IF x.neg # y.neg THEN x.neg
    ELSE IF x.neg THEN BigCmp(x.mag, y.mag) > 0
    ELSE BigCmp(x.mag, y.mag) < 0

FAbs(x) == Float(FALSE, x.mag)

(***************************************************************************)
(*                        calculate_mastermix                              *)
(***************************************************************************)

MaxReactions == 3
MaxVolumeTenths == 30
MaxExtraFives == 2

\* The polymerase types tried: the two recognised ones and another one.
PolymeraseTypes == {"taq", "high_fidelity", "pfu"}

Component(name, per_reaction, final_conc) ==
    [name |-> name, per_reaction |-> per_reaction, final_conc |-> final_conc]

TaqComponentsWithoutMgCl2(volume) ==
    <<Component("10X Buffer", FMul(volume, FloatOfDecimal(1, 10)), "1X"),
      Component("dNTPs (10 mM each)", FMul(volume, FloatOfDecimal(2, 100)), "200 uM"),
      Component("Forward Primer (10 uM)", FMul(volume, FloatOfDecimal(2, 100)), "0.2 uM"),
      Component("Reverse Primer (10 uM)", FMul(volume, FloatOfDecimal(2, 100)), "0.2 uM"),
      Component("Taq Polymerase (5 U/uL)", FloatOfDecimal(25, 100), "1.25 U")>>

\* pcr.py 93-100: the components dict, in insertion order
TaqComponents(volume) ==
    <<Component("10X Buffer", FMul(volume, FloatOfDecimal(1, 10)), "1X"),
      Component("dNTPs (10 mM each)", FMul(volume, FloatOfDecimal(2, 100)), "200 uM"),
      Component("Forward Primer (10 uM)", FMul(volume, FloatOfDecimal(2, 100)), "0.2 uM"),
      Component("Reverse Primer (10 uM)", FMul(volume, FloatOfDecimal(2, 100)), "0.2 uM"),
      Component("Taq Polymerase (5 U/uL)", FloatOfDecimal(25, 100), "1.25 U"),
      Component("MgCl2 (25 mM)", FMul(volume, FloatOfDecimal(6, 100)), "1.5 mM")>>

\* pcr.py 102-108
HighFidelityComponents(volume) ==
    <<Component("5X HF Buffer", FMul(volume, FloatOfDecimal(2, 10)), "1X"),
      Component("dNTPs (10 mM each)", FMul(volume, FloatOfDecimal(2, 100)), "200 uM"),
      Component("Forward Primer (10 uM)", FMul(volume, FloatOfDecimal(2, 100)), "0.2 uM"),
      Component("Reverse Primer (10 uM)", FMul(volume, FloatOfDecimal(2, 100)), "0.2 uM"),
      Component("HF Polymerase (2 U/uL)", FloatOfDecimal(5, 10), "1 U")>>

\* pcr.py 114
TemplateComponent == Component("Template DNA", FloatOfInt(1), "variable")

TotalReactionsWithoutExtra(reactions, extra_percent) == FloatOfInt(reactions)

\* pcr.py 88: reactions * (1 + extra_percent / 100)
TotalReactions(reactions, extra_percent) ==
    FMul(FloatOfInt(reactions),
         FAdd(FloatOfInt(1), FDivInt(FloatOfInt(extra_percent), 100)))

RECURSIVE FSumFrom(_, _, _)
FSumFrom(values, i, acc) ==
    IF i > Len(values) THEN acc ELSE FSumFrom(values, i + 1, FAdd(acc, values[i]))

\* Python's sum(): the values added from left to right, starting from 0
FSum(values) == FSumFrom(values, 1, FZero)

PerReactionVolumes(components) ==
    [i \in 1 .. Len(components) |-> components[i].per_reaction]

\* pcr.py 117
UsedVolume(components) == FSum(PerReactionVolumes(components))

WaterVolumeIgnoringUsed(volume, used_volume) == volume

\* pcr.py 120
WaterVolume(volume, used_volume) == FSub(volume, used_volume)

OverBudgetNever(water_volume) == FALSE

\* pcr.py 121
OverBudget(water_volume) == FLt(water_volume, FZero)

\* pcr.py 129-130
WithTotalVolumes(components, total_reactions) ==
    [i \in 1 .. Len(components) |->
        [name |-> components[i].name,
         per_reaction |-> components[i].per_reaction,
         final_conc |-> components[i].final_conc,
         total_volume |-> FMul(components[i].per_reaction, total_reactions)]]

MixLocals0 ==
    [total_reactions |-> FZero, components |-> <<>>,
     used_volume |-> FZero, water_volume |-> FZero]

\* A call calculate_mastermix(reactions, volume, extra_percent,
\* polymerase_type, include_template); volume is a number of tenths of a
\* microliter and extra_percent a multiple of 5.
InitMix ==
    /\ args \in [reactions : 0 .. MaxReactions,
                 volume : {FloatOfDecimal(v, 10) : v \in (-1) .. MaxVolumeTenths},
                 extra_percent : {5 * k : k \in 0 .. MaxExtraFives},
                 polymerase_type : PolymeraseTypes,
                 include_template : BOOLEAN]
    /\ pc = "components"
    /\ locals = MixLocals0
    /\ ret = NoReturn
    /\ err = NoError

UnknownPolymeraseNever(polymerase_type) == FALSE

\* pcr.py 92, 101, 109: neither branch of the if/elif matches
UnknownPolymerase(polymerase_type) ==
    polymerase_type # "taq" /\ polymerase_type # "high_fidelity"

\* pcr.py 87-110
BuildComponents ==
    /\ pc = "components"
    /\ LET total_reactions == TotalReactions(args.reactions, args.extra_percent) IN
         IF UnknownPolymerase(args.polymerase_type)
         THEN /\ locals' = [locals EXCEPT !.total_reactions = total_reactions]
              /\ pc' = "raised"
              /\ err' = [kind |-> "ValueError", msg |-> "Unknown polymerase type"]
         ELSE /\ locals' = [locals EXCEPT
                     !.total_reactions = total_reactions,
                     !.components = IF args.polymerase_type = "taq"
                                    THEN TaqComponents(args.volume)
                                    ELSE HighFidelityComponents(args.volume)]
              /\ pc' = "template"
              /\ UNCHANGED err
    /\ UNCHANGED <<args, ret>>

\* pcr.py 112-114
AddTemplate ==
    /\ pc = "template"
    /\ IF args.include_template
       THEN locals' = [locals EXCEPT !.components = Append(@, TemplateComponent)]
       ELSE UNCHANGED locals
    /\ pc' = "water"
    /\ UNCHANGED <<args, ret, err>>

\* pcr.py 116-126
AddWater ==
    /\ pc = "water"
    /\ LET used_volume == UsedVolume(locals.components)
           water_volume == WaterVolume(args.volume, used_volume)
       IN IF OverBudget(water_volume)
          THEN /\ locals' = [locals EXCEPT !.used_volume = used_volume,
                                           !.water_volume = water_volume]
               /\ pc' = "raised"
               /\ err' = [kind |-> "ValueError",
                          msg |-> "Component volumes exceed reaction volume"]
          ELSE /\ locals' = [locals EXCEPT
                      !.used_volume = used_volume,
                      !.water_volume = water_volume,
                      !.components = Append(@, Component("Water", water_volume, "-"))]
               /\ pc' = "totals"
               /\ UNCHANGED err
    /\ UNCHANGED <<args, ret>>

\* pcr.py 128-140
ReturnMasterMix ==
    /\ pc = "totals"
    /\ LET components == WithTotalVolumes(locals.components, locals.total_reactions) IN
         /\ locals' = [locals EXCEPT !.components = components]
         /\ ret' = <<[reactions |-> args.reactions,
                      volume_per_reaction |-> args.volume,
                      components |-> components,
                      total_volume |-> FMul(args.volume, locals.total_reactions),
                      extra_percent |-> args.extra_percent]>>
    /\ pc' = "returned"
    /\ UNCHANGED <<args, err>>

NextMix ==
    \/ BuildComponents
    \/ AddTemplate
    \/ AddWater
    \/ ReturnMasterMix

SpecMix == InitMix /\ [][NextMix]_vars

(***************************************************************************)
(*                   Claims about calculate_mastermix                      *)
(***************************************************************************)

FEq(x, y) == x.neg = y.neg /\ BigCmp(x.mag, y.mag) = 0

RECURSIVE ExactSumFrom(_, _, _)
ExactSumFrom(values, i, acc) ==
    IF i > Len(values) THEN acc
    ELSE ExactSumFrom(values, i + 1, ExactAdd(acc, values[i]))

\* the sum of the values as real numbers, without any rounding
ExactSum(values) == ExactSumFrom(values, 1, FZero)

\* |x - y| <= |scale| * 2^-48: x and y differ by no more than a few
\* roundings of numbers of the size of scale
WithinRounding(x, y, scale) ==
    BigCmp(BigShiftLeft(ExactAdd(x, FNeg(y)).mag, 48), scale.mag) <= 0

TotalVolumes(components) ==
    [i \in 1 .. Len(components) |-> components[i].total_volume]

\* C13 as stated: in every returned master mix the per-reaction volumes of
\* all components, Water included, sum exactly to volume_per_reaction,
\* whether they are added as floats in the order of the components or as
\* real numbers.
C13_PerReactionSumExact ==
    pc = "returned" =>
        \/ FEq(FSum(PerReactionVolumes(ret[1].components)), ret[1].volume_per_reaction)
        \/ FEq(ExactSum(PerReactionVolumes(ret[1].components)), ret[1].volume_per_reaction)

\* C13 corrected: in every returned master mix the per-reaction volumes of
\* all components, Water included, sum to volume_per_reaction up to
\* floating-point rounding (a relative error of at most 2^-48), added as
\* floats or as real numbers; the volume returned is the one requested.
C13_PerReactionSumWithinRounding ==
    pc = "returned" =>
        /\ FEq(ret[1].volume_per_reaction, args.volume)
        /\ WithinRounding(FSum(PerReactionVolumes(ret[1].components)),
                          args.volume, args.volume)
        /\ WithinRounding(ExactSum(PerReactionVolumes(ret[1].components)),
                          args.volume, args.volume)

C13_Witness ==
    /\ pc = "returned"
    /\ args.reactions >= 1
    /\ ret[1].components[Len(ret[1].components)].name = "Water"
    /\ ~FEq(FSum(PerReactionVolumes(ret[1].components)), args.volume)
    /\ ~FEq(ExactSum(PerReactionVolumes(ret[1].components)), args.volume)

\* reactions * (1 + extra_percent / 100) of the call, as floats
ArgsScaledReactions ==
    FMul(FloatOfInt(args.reactions),
         FAdd(FloatOfInt(1), FDivInt(FloatOfInt(args.extra_percent), 100)))

ComponentTotalsAreProducts ==
    \A i \in DOMAIN ret[1].components :
        FEq(ret[1].components[i].total_volume,
            FMul(ret[1].components[i].per_reaction, ArgsScaledReactions))

MixTotalIsProduct ==
    FEq(ret[1].total_volume, FMul(args.volume, ArgsScaledReactions))

\* C14 as stated: every component's total_volume is its per_reaction volume
\* times reactions * (1 + extra_percent/100), the mix's total_volume is
\* volume times the same, and that is also the sum of the components'
\* total_volumes, added as floats in the order of the components or as real
\* numbers.
C14_TotalsExact ==
    pc = "returned" =>
        /\ ComponentTotalsAreProducts
        /\ MixTotalIsProduct
        /\ \/ FEq(FSum(TotalVolumes(ret[1].components)), ret[1].total_volume)
           \/ FEq(ExactSum(TotalVolumes(ret[1].components)), ret[1].total_volume)

\* C14 corrected: every component's total_volume is the float product of its
\* per_reaction volume and reactions * (1 + extra_percent/100), the mix's
\* total_volume is the float product of volume and the same, and the
\* components' total_volumes sum to the mix's total_volume up to
\* floating-point rounding (a relative error of at most 2^-48).
C14_TotalsWithinRounding ==
    pc = "returned" =>
        /\ ComponentTotalsAreProducts
        /\ MixTotalIsProduct
        /\ WithinRounding(FSum(TotalVolumes(ret[1].components)),
                          ret[1].total_volume, ret[1].total_volume)
        /\ WithinRounding(ExactSum(TotalVolumes(ret[1].components)),
                          ret[1].total_volume, ret[1].total_volume)

C14_Witness ==
    /\ pc = "returned"
    /\ args.reactions >= 1
    /\ args.extra_percent > 0
    /\ FLt(FZero, ret[1].total_volume)
    /\ ~FEq(FSum(TotalVolumes(ret[1].components)), ret[1].total_volume)
    /\ ~FEq(ExactSum(TotalVolumes(ret[1].components)), ret[1].total_volume)

KnownPolymerase == args.polymerase_type \in {"taq", "high_fidelity"}

\* volume - (sum of the per-reaction volumes of the other components),
\* computed from the arguments of the call
ArgsWaterVolume ==
    LET table == IF args.polymerase_type = "taq"
                 THEN TaqComponents(args.volume)
                 ELSE HighFidelityComponents(args.volume)
        others == IF args.include_template
                  THEN Append(table, TemplateComponent) ELSE table
    IN FSub(args.volume, FSum(PerReactionVolumes(others)))

OverBudgetError ==
    [kind |-> "ValueError", msg |-> "Component volumes exceed reaction volume"]

\* C15: for a recognised polymerase kind the call fails if and only if
\* water_volume = volume - (sum of the other per-reaction volumes) is
\* negative, then with the over-budget error and no other; a returned mix
\* has a Water volume >= 0.
C15_OverBudgetIffNegativeWater ==
    KnownPolymerase =>
        /\ pc = "raised" => err = OverBudgetError /\ FLt(ArgsWaterVolume, FZero)
        /\ (pc \in {"totals", "returned", "raised"} /\ FLt(ArgsWaterVolume, FZero))
              => pc = "raised" /\ ret = NoReturn
        /\ pc = "returned" =>
              /\ ~FLt(ArgsWaterVolume, FZero)
              /\ \E i \in DOMAIN ret[1].components :
                    /\ ret[1].components[i].name = "Water"
                    /\ FEq(ret[1].components[i].per_reaction, ArgsWaterVolume)
                    /\ ~FLt(ret[1].components[i].per_reaction, FZero)

C15_Witness ==
    /\ KnownPolymerase
    /\ pc = "raised"
    /\ err = OverBudgetError
    /\ FLt(FZero, args.volume)
    /\ FLt(ArgsWaterVolume, FZero)

\* C16: a polymerase kind outside the two recognised ones fails with the
\* unknown-polymerase error and returns no mix, whatever reactions, volume,
\* extra_percent and include_template are: the kind is checked before the
\* budget.
C16_UnknownPolymeraseFails ==
    (~KnownPolymerase /\ pc # "components") =>
        /\ pc = "raised"
        /\ err = [kind |-> "ValueError", msg |-> "Unknown polymerase type"]
        /\ ret = NoReturn
        /\ locals.components = <<>>

\* an unknown kind with a volume that a recognised kind would reject
C16_Witness ==
    /\ ~KnownPolymerase
    /\ pc = "raised"
    /\ err.msg = "Unknown polymerase type"
    /\ args.include_template
    /\ FLt(args.volume, FloatOfInt(1))

(***************************************************************************)
(*                         Buffer recipes                                  *)
(***************************************************************************)

\* One entry of a components dict; mw is in hundredths, <<>> for None.
Ingredient(component, amount, unit, mw) ==
    [component |-> component, amount |-> amount, unit |-> unit, mw |-> mw]

\* A BufferRecipe object; ph is in hundredths, <<>> for None.
BufferRecipe(name, components, ph, notes) ==
    [name |-> name, components |-> components, ph |-> ph, notes |-> notes]

\* buffers.py 84-99
Recipe_PBS ==
    BufferRecipe("Phosphate Buffered Saline (PBS) 1X",
      <<
        Ingredient("NaCl", FloatOfDecimal(80, 10), "g", <<5844>>),
        Ingredient("KCl", FloatOfDecimal(2, 10), "g", <<7455>>),
        Ingredient("Na2HPO4", FloatOfDecimal(144, 100), "g", <<14196>>),
        Ingredient("KH2PO4", FloatOfDecimal(24, 100), "g", <<13609>>)
      >>,
      <<740>>,
      <<"Dissolve in 800 mL of distilled water",
        "Adjust pH to 7.4 with HCl",
        "Bring volume to 1 L with distilled water",
        "Autoclave for sterilization">>)

\* buffers.py 100-115
Recipe_PBS_10X ==
    BufferRecipe("Phosphate Buffered Saline (PBS) 10X",
      <<
        Ingredient("NaCl", FloatOfDecimal(800, 10), "g", <<5844>>),
        Ingredient("KCl", FloatOfDecimal(20, 10), "g", <<7455>>),
        Ingredient("Na2HPO4", FloatOfDecimal(144, 10), "g", <<14196>>),
        Ingredient("KH2PO4", FloatOfDecimal(24, 10), "g", <<13609>>)
      >>,
      <<740>>,
      <<"Dissolve in 800 mL of distilled water",
        "Adjust pH to 7.4 with HCl",
        "Bring volume to 1 L with distilled water",
        "Dilute 1:10 for working solution">>)

\* buffers.py 116-128
Recipe_TBS ==
    BufferRecipe("Tris Buffered Saline (TBS) 1X",
      <<
        Ingredient("Tris base", FloatOfDecimal(242, 100), "g", <<12114>>),
        Ingredient("NaCl", FloatOfDecimal(80, 10), "g", <<5844>>)
      >>,
      <<760>>,
      <<"Dissolve in 800 mL of distilled water",
        "Adjust pH to 7.6 with HCl",
        "Bring volume to 1 L with distilled water">>)

\* buffers.py 129-141
Recipe_TBS_10X ==
    BufferRecipe("Tris Buffered Saline (TBS) 10X",
      <<
        Ingredient("Tris base", FloatOfDecimal(242, 10), "g", <<12114>>),
        Ingredient("NaCl", FloatOfDecimal(800, 10), "g", <<5844>>)
      >>,
      <<760>>,
      <<"Dissolve in 800 mL of distilled water",
        "Adjust pH to 7.6 with HCl",
        "Bring volume to 1 L with distilled water">>)

\* buffers.py 142-156
Recipe_TBST ==
    BufferRecipe("Tris Buffered Saline with Tween-20 (TBST)",
      <<
        Ingredient("Tris base", FloatOfDecimal(242, 100), "g", <<12114>>),
        Ingredient("NaCl", FloatOfDecimal(80, 10), "g", <<5844>>),
        Ingredient("Tween-20", FloatOfDecimal(10, 10), "mL", <<>>)
      >>,
      <<760>>,
      <<"Dissolve Tris and NaCl in 800 mL of distilled water",
        "Adjust pH to 7.6 with HCl",
        "Add Tween-20 and mix gently",
        "Bring volume to 1 L with distilled water">>)

\* buffers.py 157-171
Recipe_TE ==
    BufferRecipe("Tris-EDTA (TE) Buffer",
      <<
        Ingredient("Tris-HCl", FloatOfDecimal(121, 100), "g", <<15760>>),
        Ingredient("EDTA", FloatOfDecimal(37, 100), "g", <<37224>>)
      >>,
      <<800>>,
      <<"Final concentration: 10 mM Tris, 1 mM EDTA",
        "Dissolve in 800 mL of distilled water",
        "Adjust pH to 8.0 with HCl",
        "Bring volume to 1 L with distilled water",
        "Autoclave or filter sterilize">>)

\* buffers.py 172-186
Recipe_TAE_50X ==
    BufferRecipe("Tris-Acetate-EDTA (TAE) 50X",
      <<
        Ingredient("Tris base", FloatOfDecimal(2420, 10), "g", <<12114>>),
        Ingredient("Glacial acetic acid", FloatOfDecimal(571, 10), "mL", <<6005>>),
        Ingredient("EDTA (0.5M, pH 8.0)", FloatOfDecimal(1000, 10), "mL", <<37224>>)
      >>,
      <<830>>,
      <<"Add Tris to 600 mL distilled water",
        "Add glacial acetic acid and EDTA solution",
        "Bring volume to 1 L with distilled water",
        "Dilute 1:50 for working solution (1X TAE)">>)

\* buffers.py 187-201
Recipe_TBE_10X ==
    BufferRecipe("Tris-Borate-EDTA (TBE) 10X",
      <<
        Ingredient("Tris base", FloatOfDecimal(1080, 10), "g", <<12114>>),
        Ingredient("Boric acid", FloatOfDecimal(550, 10), "g", <<6183>>),
        Ingredient("EDTA", FloatOfDecimal(744, 100), "g", <<37224>>)
      >>,
      <<830>>,
      <<"Dissolve in 800 mL of distilled water",
        "Bring volume to 1 L with distilled water",
        "No pH adjustment needed",
        "Dilute 1:10 for working solution">>)

\* buffers.py 202-217
Recipe_RIPA ==
    BufferRecipe("RIPA Lysis Buffer",
      <<
        Ingredient("NaCl", FloatOfDecimal(876, 100), "g", <<5844>>),
        Ingredient("Tris-HCl (1M, pH 8.0)", FloatOfDecimal(500, 10), "mL", <<15760>>),
        Ingredient("NP-40", FloatOfDecimal(100, 10), "mL", <<>>),
        Ingredient("Sodium deoxycholate", FloatOfDecimal(50, 10), "g", <<41455>>),
        Ingredient("SDS", FloatOfDecimal(10, 10), "g", <<28838>>)
      >>,
      <<800>>,
      <<"Final: 150 mM NaCl, 50 mM Tris, 1% NP-40, 0.5% deoxycholate, 0.1% SDS",
        "Add protease inhibitors fresh before use",
        "Keep on ice during use">>)

\* buffers.py 218-231
Recipe_LOADING_6X ==
    BufferRecipe("6X DNA Loading Buffer",
      <<
        Ingredient("Bromophenol blue", FloatOfDecimal(25, 100), "g", <<69190>>),
        Ingredient("Xylene cyanol FF", FloatOfDecimal(25, 100), "g", <<53860>>),
        Ingredient("Glycerol", FloatOfDecimal(3000, 10), "mL", <<9209>>)
      >>,
      <<>>,
      <<"Mix components and bring to 1 L with distilled water",
        "Store at 4uC",
        "Use 1 uL per 5 uL of DNA sample">>)

\* buffers.py 83-232: the catalog, a dict in insertion order; a key is the
\* sequence of its characters
COMMON_BUFFERS ==
    <<[key |-> <<"P", "B", "S">>, recipe |-> Recipe_PBS],
      [key |-> <<"P", "B", "S", "_", "1", "0", "X">>, recipe |-> Recipe_PBS_10X],
      [key |-> <<"T", "B", "S">>, recipe |-> Recipe_TBS],
      [key |-> <<"T", "B", "S", "_", "1", "0", "X">>, recipe |-> Recipe_TBS_10X],
      [key |-> <<"T", "B", "S", "T">>, recipe |-> Recipe_TBST],
      [key |-> <<"T", "E">>, recipe |-> Recipe_TE],
      [key |-> <<"T", "A", "E", "_", "5", "0", "X">>, recipe |-> Recipe_TAE_50X],
      [key |-> <<"T", "B", "E", "_", "1", "0", "X">>, recipe |-> Recipe_TBE_10X],
      [key |-> <<"R", "I", "P", "A">>, recipe |-> Recipe_RIPA],
      [key |-> <<"L", "O", "A", "D", "I", "N", "G", "_", "6", "X">>, recipe |-> Recipe_LOADING_6X]>>

RecipeAt(catalog, i) == catalog[i].recipe

ScaleWithoutVolume(components, volume_liters) ==
    [i \in DOMAIN components |->
        [component |-> components[i].component,
         amount |-> components[i].amount,
         unit |-> components[i].unit]]

\* buffers.py 54-70: BufferRecipe.scale, the dict it builds
Scale(components, volume_liters) ==
    [i \in DOMAIN components |->
        [component |-> components[i].component,
         amount |-> FMul(components[i].amount, volume_liters),
         unit |-> components[i].unit]]

MaxLitersTenths == 5

\* volumes in liters, in tenths
LiterVolumes == {FloatOfDecimal(k, 10) : k \in 0 .. MaxLitersTenths}

ScaleLocals0 ==
    [COMMON_BUFFERS |-> COMMON_BUFFERS,
     scaled_a |-> <<>>, scaled_b |-> <<>>, scaled_sum |-> <<>>]

\* A caller scales one catalog recipe to a, to b and to a + b liters.
InitScale ==
    /\ locals = ScaleLocals0
    /\ args \in [recipe : DOMAIN locals.COMMON_BUFFERS, a : LiterVolumes, b : LiterVolumes]
    /\ pc = "scale_a"
    /\ ret = NoReturn
    /\ err = NoError

\* recipe.scale(a)
ScaleA ==
    /\ pc = "scale_a"
    /\ locals' = [locals EXCEPT !.scaled_a =
                    Scale(RecipeAt(locals.COMMON_BUFFERS, args.recipe).components, args.a)]
    /\ pc' = "scale_b"
    /\ UNCHANGED <<args, ret, err>>

\* recipe.scale(b)
ScaleB ==
    /\ pc = "scale_b"
    /\ locals' = [locals EXCEPT !.scaled_b =
                    Scale(RecipeAt(locals.COMMON_BUFFERS, args.recipe).components, args.b)]
    /\ pc' = "scale_sum"
    /\ UNCHANGED <<args, ret, err>>

\* recipe.scale(a + b)
ScaleSum ==
    /\ pc = "scale_sum"
    /\ LET scaled_sum == Scale(RecipeAt(locals.COMMON_BUFFERS, args.recipe).components,
                               FAdd(args.a, args.b))
       IN /\ locals' = [locals EXCEPT !.scaled_sum = scaled_sum]
          /\ ret' = <<scaled_sum>>
    /\ pc' = "returned"
    /\ UNCHANGED <<args, err>>

NextScale ==
    \/ ScaleA
    \/ ScaleB
    \/ ScaleSum

SpecScale == InitScale /\ [][NextScale]_vars

ArgsComponents == RecipeAt(COMMON_BUFFERS, args.recipe).components

AmountsAreProducts(scaled, volume_liters) ==
    /\ Len(scaled) = Len(ArgsComponents)
    /\ \A i \in DOMAIN scaled :
          /\ scaled[i].component = ArgsComponents[i].component
          /\ scaled[i].unit = ArgsComponents[i].unit
          /\ FEq(scaled[i].amount, FMul(ArgsComponents[i].amount, volume_liters))

\* C17 as stated: scale(a + b) equals scale(a) + scale(b) component by
\* component, the amounts added as floats or as real numbers, each amount
\* being amount_per_liter * volume_liters with the unit unchanged.
C17_ScaleAdditiveExact ==
    pc = "returned" =>
        /\ AmountsAreProducts(locals.scaled_a, args.a)
        /\ AmountsAreProducts(locals.scaled_b, args.b)
        /\ AmountsAreProducts(locals.scaled_sum, FAdd(args.a, args.b))
        /\ \A i \in DOMAIN locals.scaled_sum :
              \/ FEq(locals.scaled_sum[i].amount,
                     FAdd(locals.scaled_a[i].amount, locals.scaled_b[i].amount))
              \/ FEq(locals.scaled_sum[i].amount,
                     ExactAdd(locals.scaled_a[i].amount, locals.scaled_b[i].amount))

\* C17 corrected: for non-negative volumes a and b, each amount of scale(v)
\* is the float product amount_per_liter * v with the unit unchanged, and
\* scale(a + b) equals scale(a) + scale(b) component by component up to
\* floating-point rounding (a relative error of at most 2^-48).
C17_ScaleAdditiveWithinRounding ==
    pc = "returned" =>
        /\ AmountsAreProducts(locals.scaled_a, args.a)
        /\ AmountsAreProducts(locals.scaled_b, args.b)
        /\ AmountsAreProducts(locals.scaled_sum, FAdd(args.a, args.b))
        /\ \A i \in DOMAIN locals.scaled_sum :
              /\ WithinRounding(FAdd(locals.scaled_a[i].amount, locals.scaled_b[i].amount),
                                locals.scaled_sum[i].amount, locals.scaled_sum[i].amount)
              /\ WithinRounding(ExactAdd(locals.scaled_a[i].amount, locals.scaled_b[i].amount),
                                locals.scaled_sum[i].amount, locals.scaled_sum[i].amount)

C17_Witness ==
    /\ pc = "returned"
    /\ FLt(FZero, args.a)
    /\ FLt(FZero, args.b)
    /\ \E i \in DOMAIN locals.scaled_sum :
          /\ ~FEq(locals.scaled_sum[i].amount,
                  FAdd(locals.scaled_a[i].amount, locals.scaled_b[i].amount))
          /\ ~FEq(locals.scaled_sum[i].amount,
                  ExactAdd(locals.scaled_a[i].amount, locals.scaled_b[i].amount))

(***************************************************************************)
(* A caller's session with the buffer catalog.  COMMON_BUFFERS is a module *)
(* level dict: locals.COMMON_BUFFERS is the object as it is now, and the   *)
(* dicts made by scale are the objects locals.maps.  What a call returns   *)
(* is a reference to one of these objects.                                 *)
(***************************************************************************)

MaxCalls == 3
MaxLookups == 2

LowerCaseLetters ==
    <<"a", "b", "c", "d", "e", "f", "g", "h", "i", "j", "k", "l", "m",
      "n", "o", "p", "q", "r", "s", "t", "u", "v", "w", "x", "y", "z">>

UpperCaseLetters ==
    <<"A", "B", "C", "D", "E", "F", "G", "H", "I", "J", "K", "L", "M",
      "N", "O", "P", "Q", "R", "S", "T", "U", "V", "W", "X", "Y", "Z">>

UpperCharIdentity(c) == c

\* str.upper on one character
UpperChar(c) ==
    IF \E i \in DOMAIN LowerCaseLetters : LowerCaseLetters[i] = c
    THEN UpperCaseLetters[CHOOSE i \in DOMAIN LowerCaseLetters : LowerCaseLetters[i] = c]
    ELSE c

\* buffers.py 253: buffer_name.upper()
Upper(buffer_name) == [i \in DOMAIN buffer_name |-> UpperChar(buffer_name[i])]

\* buffers.py 254: buffer_key in COMMON_BUFFERS
HasKey(catalog, buffer_key) == \E i \in DOMAIN catalog : catalog[i].key = buffer_key

KeyIndex(catalog, buffer_key) == CHOOSE i \in DOMAIN catalog : catalog[i].key = buffer_key

\* buffers.py 255: COMMON_BUFFERS.keys(), which the message joins with ", "
Keys(catalog) == [i \in DOMAIN catalog |-> catalog[i].key]

\* The names a caller asks for: keys as they are, in other letter cases,
\* and names that are no key.
BufferNames == {<<"P", "B", "S">>, <<"p", "b", "s">>, <<"T", "e">>, <<"x", "y", "z">>}

\* name with every upper-case letter replaced by its lower-case letter
Lowered(name) ==
    [i \in DOMAIN name |->
        IF \E k \in DOMAIN UpperCaseLetters : UpperCaseLetters[k] = name[i]
        THEN LowerCaseLetters[CHOOSE k \in DOMAIN UpperCaseLetters : UpperCaseLetters[k] = name[i]]
        ELSE name[i]]

\* The names looked up one by one: every key as it is, in lower case and
\* with only its first letter in lower case, and names that are no key.
LookupNames(catalog) ==
    {catalog[i].key : i \in DOMAIN catalog}
      \cup {Lowered(catalog[i].key) : i \in DOMAIN catalog}
      \cup {Lowered(SubSeq(catalog[i].key, 1, 1))
               \o SubSeq(catalog[i].key, 2, Len(catalog[i].key)) :
             i \in DOMAIN catalog}
      \cup {<<>>, <<"P", "B">>, <<"P", "B", "S", " ">>, <<"P", "B", "S", "_", "1", "X">>,
            <<"x", "y", "z">>}

\* volume_ml of calculate_buffer_volume
MilliliterVolumes == {FloatOfInt(250), FloatOfInt(500)}

\* volume_liters of scale
SessionLiterVolumes == {FloatOfDecimal(25, 100), FloatOfDecimal(5, 10)}

NoRef == [recipe |-> 0, map |-> 0]

\* a reference to the BufferRecipe object of catalog entry i
RecipeRef(i) == [recipe |-> i, map |-> 0]

\* a reference to the j-th dict made by scale
MapRef(j) == [recipe |-> 0, map |-> j]

ScaleResultRefShared(i, j) == RecipeRef(i)

\* buffers.py 64, 70: scale returns the dict it has just created
ScaleResultRef(i, j) == MapRef(j)

NoBufferError == [kind |-> "None", msg |-> "", buffer_name |-> <<>>, available |-> <<>>]

\* buffers.py 255-258
UnknownBuffer(buffer_name, catalog) ==
    [kind |-> "ValueError", msg |-> "Unknown buffer",
     buffer_name |-> buffer_name, available |-> Keys(catalog)]

NoCall == [op |-> "", buffer_name |-> <<>>, volume |-> FZero, self |-> NoRef]

\* the components dict a reference leads to
Components(heap, ref) ==
    IF ref.map > 0 THEN heap.maps[ref.map]
    ELSE heap.COMMON_BUFFERS[ref.recipe].recipe.components

\* The caller's d[component]["amount"] = 0.0 on the components dict that
\* ref leads to.
Written(heap, ref, c) ==
    IF ref.map > 0
    THEN [heap EXCEPT !.maps[ref.map][c].amount = FZero,
                      !.touched = @ \cup {ref.map},
                      !.steps = @ + 1]
    ELSE [heap EXCEPT !.COMMON_BUFFERS[ref.recipe].recipe.components[c].amount = FZero,
                      !.steps = @ + 1]

\* the heap after scale has made a new dict for the recipe of entry i
Scaled(heap, i, volume_liters) ==
    LET scaled == Scale(heap.COMMON_BUFFERS[i].recipe.components, volume_liters)
    IN [heap EXCEPT !.maps = Append(@, scaled), !.created = Append(@, scaled)]

Hold(heap, ref, from) ==
    [heap EXCEPT !.held = Append(@, [ref |-> ref, from |-> from]), !.steps = @ + 1]

InitBuffers ==
    /\ args = NoCall
    /\ pc = "caller"
    /\ locals = [COMMON_BUFFERS |-> COMMON_BUFFERS, maps |-> <<>>, created |-> <<>>,
                 held |-> <<>>, touched |-> {}, steps |-> 0]
    /\ ret = NoReturn
    /\ err = NoBufferError

\* buffers.py 235-259
GetBufferRecipeCall(buffer_name) ==
    LET buffer_key == Upper(buffer_name) IN
      /\ args' = [op |-> "get_buffer_recipe", buffer_name |-> buffer_name,
                  volume |-> FZero, self |-> NoRef]
      /\ IF ~HasKey(locals.COMMON_BUFFERS, buffer_key)
         THEN /\ err' = UnknownBuffer(buffer_name, locals.COMMON_BUFFERS)
              /\ ret' = NoReturn
              /\ pc' = "raised"
              /\ locals' = [locals EXCEPT !.steps = @ + 1]
         ELSE LET ref == RecipeRef(KeyIndex(locals.COMMON_BUFFERS, buffer_key)) IN
              /\ err' = NoBufferError
              /\ ret' = <<ref>>
              /\ pc' = "returned"
              /\ locals' = Hold(locals, ref, "get_buffer_recipe")

\* get_buffer_recipe in a session
GetBufferRecipe ==
    /\ locals.steps < MaxCalls
    /\ \E buffer_name \in BufferNames : GetBufferRecipeCall(buffer_name)

\* get_buffer_recipe on its own
LookupBuffer ==
    /\ locals.steps < MaxLookups
    /\ \E buffer_name \in LookupNames(locals.COMMON_BUFFERS) : GetBufferRecipeCall(buffer_name)

\* buffers.py 54-70, called on a recipe the caller got from get_buffer_recipe
ScaleRecipe ==
    /\ locals.steps < MaxCalls
    /\ \E h \in DOMAIN locals.held, volume_liters \in SessionLiterVolumes :
         /\ locals.held[h].from = "get_buffer_recipe"
         /\ LET self == locals.held[h].ref
                ref == ScaleResultRef(self.recipe, Len(locals.maps) + 1)
            IN /\ args' = [op |-> "scale", buffer_name |-> <<>>,
                           volume |-> volume_liters, self |-> self]
               /\ locals' = Hold(Scaled(locals, self.recipe, volume_liters), ref, "scale")
               /\ ret' = <<ref>>
    /\ err' = NoBufferError
    /\ pc' = "returned"

\* buffers.py 262-282
CalculateBufferVolume ==
    /\ locals.steps < MaxCalls
    /\ \E buffer_name \in BufferNames, volume_ml \in MilliliterVolumes :
         LET buffer_key == Upper(buffer_name) IN
           /\ args' = [op |-> "calculate_buffer_volume", buffer_name |-> buffer_name,
                       volume |-> volume_ml, self |-> NoRef]
           /\ IF ~HasKey(locals.COMMON_BUFFERS, buffer_key)
              THEN /\ err' = UnknownBuffer(buffer_name, locals.COMMON_BUFFERS)
                   /\ ret' = NoReturn
                   /\ pc' = "raised"
                   /\ locals' = [locals EXCEPT !.steps = @ + 1]
              ELSE LET i == KeyIndex(locals.COMMON_BUFFERS, buffer_key)
                       volume_liters == FDivInt(volume_ml, 1000)
                       ref == ScaleResultRef(i, Len(locals.maps) + 1)
                   IN /\ err' = NoBufferError
                      /\ ret' = <<ref>>
                      /\ pc' = "returned"
                      /\ locals' = Hold(Scaled(locals, i, volume_liters), ref, "scale")

\* The caller changes an amount in a dict it got from scale or from
\* calculate_buffer_volume.
ModifyScaled ==
    /\ locals.steps < MaxCalls
    /\ \E h \in DOMAIN locals.held :
         /\ locals.held[h].from = "scale"
         /\ \E c \in DOMAIN Components(locals, locals.held[h].ref) :
              locals' = Written(locals, locals.held[h].ref, c)
    /\ pc' = "caller"
    /\ UNCHANGED <<args, ret, err>>

\* The caller changes an amount in the components of a recipe it got from
\* get_buffer_recipe.
ModifyRecipe ==
    /\ locals.steps < MaxCalls
    /\ \E h \in DOMAIN locals.held :
         /\ locals.held[h].from = "get_buffer_recipe"
         /\ \E c \in DOMAIN Components(locals, locals.held[h].ref) :
              locals' = Written(locals, locals.held[h].ref, c)
    /\ pc' = "caller"
    /\ UNCHANGED <<args, ret, err>>

NextBuffers ==
    \/ GetBufferRecipe
    \/ ScaleRecipe
    \/ CalculateBufferVolume
    \/ ModifyScaled

\* calls, and a caller that changes only the dicts scale returned
SpecBuffers == InitBuffers /\ [][NextBuffers]_vars

NextBuffersOwned ==
    \/ GetBufferRecipe
    \/ ScaleRecipe
    \/ CalculateBufferVolume
    \/ ModifyScaled
    \/ ModifyRecipe

\* calls, and a caller that changes whatever it was given
SpecBuffersOwned == InitBuffers /\ [][NextBuffersOwned]_vars

\* single lookups
SpecLookup == InitBuffers /\ [][LookupBuffer]_vars

(***************************************************************************)
(*                     Claims about the buffer catalog                     *)
(***************************************************************************)

\* c and d are the same letter, in either case
SameLetter(c, d) ==
    \E k \in DOMAIN LowerCaseLetters :
        {c, d} \subseteq {LowerCaseLetters[k], UpperCaseLetters[k]}

SameIgnoringCase(x, y) ==
    /\ Len(x) = Len(y)
    /\ \A i \in DOMAIN x : x[i] = y[i] \/ SameLetter(x[i], y[i])

IsKeyIgnoringCase(name) ==
    \E i \in DOMAIN COMMON_BUFFERS : SameIgnoringCase(name, COMMON_BUFFERS[i].key)

EntryIgnoringCase(name) ==
    CHOOSE i \in DOMAIN COMMON_BUFFERS : SameIgnoringCase(name, COMMON_BUFFERS[i].key)

\* C18: after any sequence of get_buffer_recipe, scale and
\* calculate_buffer_volume calls, with a caller that changes the dicts scale
\* returned, the ten-entry catalog is as it was built; every scale call
\* returns a dict that did not exist before; and a dict the caller has not
\* changed is as scale made it.
C18_CatalogUnchangedScaleFresh ==
    /\ locals.COMMON_BUFFERS = COMMON_BUFFERS
    /\ Len(locals.COMMON_BUFFERS) = 10
    /\ \A j \in DOMAIN locals.maps :
          j \notin locals.touched => locals.maps[j] = locals.created[j]
    /\ (pc = "returned" /\ args.op \in {"scale", "calculate_buffer_volume"}) =>
          /\ ret[1] = MapRef(Len(locals.maps))
          /\ \A h \in 1 .. (Len(locals.held) - 1) : locals.held[h].ref # ret[1]

\* a scaling call after the caller has changed the dict of an earlier one
C18_Witness ==
    /\ pc = "returned"
    /\ args.op = "calculate_buffer_volume"
    /\ locals.touched # {}
    /\ Len(locals.maps) >= 2
    /\ Len(locals.maps) \notin locals.touched

\* C19: a recipe returned by get_buffer_recipe shares no state with the
\* catalog: whatever the caller did to the recipes and dicts it was given,
\* get_buffer_recipe returns the recipe as the catalog was built and
\* calculate_buffer_volume the amounts of that recipe, scaled.
C19_ReturnedRecipeOwnedByCaller ==
    pc = "returned" =>
        /\ args.op = "get_buffer_recipe" =>
              locals.COMMON_BUFFERS[ret[1].recipe].recipe
                 = COMMON_BUFFERS[EntryIgnoringCase(args.buffer_name)].recipe
        /\ args.op = "calculate_buffer_volume" =>
              Components(locals, ret[1])
                 = Scale(COMMON_BUFFERS[EntryIgnoringCase(args.buffer_name)].recipe.components,
                         FDivInt(args.volume, 1000))

\* C20: get_buffer_recipe returns the catalog entry whose key is the name
\* up to letter case; a name that is no key in any letter case fails with
\* the unknown-buffer error, which carries the name and all ten keys.
C20_CaseInsensitiveLookup ==
    (args.op = "get_buffer_recipe" /\ pc # "caller") =>
        IF IsKeyIgnoringCase(args.buffer_name)
        THEN /\ pc = "returned"
             /\ err.kind = "None"
             /\ ret[1] = RecipeRef(EntryIgnoringCase(args.buffer_name))
        ELSE /\ pc = "raised"
             /\ ret = NoReturn
             /\ err.kind = "ValueError"
             /\ err.msg = "Unknown buffer"
             /\ err.buffer_name = args.buffer_name
             /\ Len(err.available) = 10
             /\ err.available = [i \in 1 .. 10 |-> COMMON_BUFFERS[i].key]

\* a name in another letter case than its key, after a failed lookup
C20_Witness ==
    /\ pc = "returned"
    /\ args.op = "get_buffer_recipe"
    /\ args.buffer_name # COMMON_BUFFERS[ret[1].recipe].key
    /\ locals.steps = 2
    /\ Len(locals.held) = 1

(***************************************************************************)
(*              More claims about generate_qpcr_plate_layout               *)
(***************************************************************************)

\* C23: when the column cursor is at cols or beyond while a well is being
\* assigned, a sample well or an NTC well, the call fails with the
\* "Exceeded plate capacity" ValueError, the error kind of the pre-check,
\* and with no other error; no well is written at a column >= cols.
C23_CursorOverflowIsCapacityError ==
    /\ (PlateSupported /\ pc = "raised") =>
          /\ err.kind = "ValueError"
          /\ err.msg \in {"Not enough wells", "Exceeded plate capacity"}
          /\ locals.current_col >= locals.cols =>
                err.msg = "Exceeded plate capacity"
    /\ PastCapacityCheck =>
          \A w \in DOMAIN locals.well_assignments : w[2] \in 1 .. locals.cols

\* the 0-based number of a well among the wells of its gene, in the order
\* samples, replicates, then the NTC replicates
WellNumberInGene(a) ==
    IF a.type = "ntc"
    THEN Len(args.samples) * args.replicates + (a.replicate - 1)
    ELSE LET s == CHOOSE i \in DOMAIN args.samples : args.samples[i] = a.sample
         IN (s - 1) * args.replicates + (a.replicate - 1)

SetMin(S) == CHOOSE x \in S : \A y \in S : x <= y

\* C24: the k-th well of a gene whose block starts at column c0 (1-based,
\* as in the well ids) is at row k mod rows of column c0 + k div rows; its
\* well id is that row's label and the 1-based column number, and the cell
\* of the layout at that 0-based row and column describes the same well.
C24_ColumnMajorWithinBlock ==
    (PastCapacityCheck /\ pc \in {"returned", "raised"}) =>
      LET wa == locals.well_assignments
          first == [g \in {wa[w].gene : w \in DOMAIN wa} |->
                       SetMin(ColumnsOfGene(wa, g))]
      IN \A w \in DOMAIN wa :
          LET k == WellNumberInGene(wa[w])
              c0 == first[wa[w].gene]
              row == k % locals.rows
              col == c0 + (k \div locals.rows)
          IN /\ w = <<locals.row_labels[row + 1], col>>
             /\ col \in 1 .. locals.cols
             /\ locals.layout[<<row, col - 1>>]
                   = <<wa[w].sample, wa[w].gene, wa[w].replicate>>
             /\ k = 0 => w = <<"A", c0>>
             /\ <<"A", c0>> \in DOMAIN wa

C24_Witness ==
    /\ pc = "returned"
    /\ Len(args.genes) >= 2
    /\ Len(args.samples) >= 2
    /\ args.include_ntc
    /\ locals.wells_per_gene > locals.rows
    /\ locals.wells_per_gene % locals.rows # 0

\* the wells one gene takes, as the claim counts them
ArgsPerGene ==
    Len(args.samples) * args.replicates
        + (IF args.include_ntc THEN args.replicates ELSE 0)

\* ceil(n / d) for n >= 0 and d > 0
CeilDiv(n, d) == (n + d - 1) \div d

\* C28: on a supported plate with replicates >= 1 and at least one well per
\* gene, a finished call has returned a layout exactly when
\* |genes| * ceil(per_gene / rows) <= cols; otherwise it ended in an error.
C28_ReturnsIffBlocksFit ==
    (/\ pc \in {"returned", "raised"}
     /\ PlateSupported
     /\ args.replicates >= 1
     /\ ArgsPerGene >= 1) =>
        /\ pc = "returned" <=>
              Len(args.genes) * CeilDiv(ArgsPerGene, locals.rows) <= locals.cols
        /\ pc = "returned" <=> (ret # NoReturn /\ err = NoError)
        /\ pc = "raised" <=> (ret = NoReturn /\ err # NoError)

\* a request that passes the pre-check and still ends in an error
C28_Witness ==
    /\ pc = "raised"
    /\ PlateSupported
    /\ args.replicates >= 1
    /\ ArgsPerGene >= 1
    /\ ArgsTotalNeeded <= locals.rows * locals.cols
    /\ Len(args.genes) * CeilDiv(ArgsPerGene, locals.rows) > locals.cols
    /\ err.msg = "Exceeded plate capacity"

\* the n-th well (n = 1, 2, ...) of the fixed order: genes in caller order;
\* within a gene the samples in caller order, each with the replicates
\* 1..replicates, then the NTC replicates 1..replicates
ExpectedWell(n) ==
    LET g == ((n - 1) \div ArgsPerGene) + 1
        k == (n - 1) % ArgsPerGene
        sample_wells == Len(args.samples) * args.replicates
    IN IF k < sample_wells
       THEN [sample |-> args.samples[(k \div args.replicates) + 1],
             gene |-> args.genes[g],
             replicate |-> (k % args.replicates) + 1,
             type |-> "sample"]
       ELSE [sample |-> NTC,
             gene |-> args.genes[g],
             replicate |-> (k - sample_wells) + 1,
             type |-> "ntc"]

\* a step that assigns wells assigns exactly one, a well not assigned
\* before, and it is the next well of the fixed order
AssignsNextExpectedWell ==
    locals'.writes # locals.writes =>
        /\ locals'.writes = locals.writes + 1
        /\ \E w \in DOMAIN locals'.well_assignments :
              /\ w \notin DOMAIN locals.well_assignments
              /\ locals'.well_assignments =
                     (w :> ExpectedWell(locals'.writes)) @@ locals.well_assignments

\* the replicate numbers of the wells of one gene and one sample (or NTC)
ReplicatesOf(wa, gene, sample, type) ==
    {wa[w].replicate : w \in {x \in DOMAIN wa : /\ wa[x].gene = gene
                                                /\ wa[x].sample = sample
                                                /\ wa[x].type = type}}

\* a returned layout holds, for every gene, the replicates 1..replicates of
\* every sample and, only with include_ntc, of the NTC; nothing else
ReturnedWellsComplete ==
    pc = "returned" =>
      LET wa == ret[1].well_assignments IN
        /\ Cardinality(DOMAIN wa) = locals.writes
        /\ \A g \in DOMAIN args.genes :
              /\ \A s \in DOMAIN args.samples :
                    ReplicatesOf(wa, args.genes[g], args.samples[s], "sample")
                        = 1 .. args.replicates
              /\ ReplicatesOf(wa, args.genes[g], NTC, "ntc")
                    = (IF args.include_ntc THEN 1 .. args.replicates ELSE {})
        /\ ~args.include_ntc => \A w \in DOMAIN wa : wa[w].type # "ntc"
        /\ \A w \in DOMAIN wa :
              /\ wa[w].type \in {"sample", "ntc"}
              /\ wa[w].type = "ntc" <=> wa[w].sample = NTC

\* C25: wells are assigned one at a time in the fixed order (genes in caller
\* order; within a gene the samples in caller order with replicates
\* 1..replicates, then, only with include_ntc, the NTC replicates
\* 1..replicates, before any well of the next gene), and a returned layout
\* holds exactly these wells; without include_ntc no well has kind ntc.
C25_FixedAssignmentOrder ==
    /\ [][AssignsNextExpectedWell]_vars
    /\ []ReturnedWellsComplete

C25_Witness ==
    /\ pc = "returned"
    /\ Len(args.genes) >= 2
    /\ Len(args.samples) >= 2
    /\ args.replicates >= 2
    /\ args.include_ntc
    /\ locals.writes = ArgsTotalNeeded

PlateCallEnded == pc \in {"returned", "raised"}

\* the placement loop of pcr.py 309-349 has been entered
PlacementLoopEntered ==
    \/ pc \in {"for_gene", "for_sample", "for_rep", "for_ntc_rep",
               "next_gene", "summary", "returned"}
    \/ /\ pc = "raised"
       /\ err.msg \in {"Exceeded plate capacity",
                       "list assignment index out of range"}

\* C27 as stated: every call ends, with a layout or an error, after at most
\* total_needed well placements, and total_needed <= rows*cols whenever the
\* placement loop is entered.
C27_TerminatesWithinTotalNeeded ==
    /\ <>PlateCallEnded
    /\ [](locals.writes <= ArgsTotalNeeded)
    /\ [](PlacementLoopEntered => ArgsTotalNeeded <= locals.rows * locals.cols)

\* C27 amended: every call ends, with a layout or an error, after at most
\* max(total_needed, 0) well placements (total_needed is negative for a
\* negative replicates), and total_needed <= rows*cols whenever the
\* placement loop is entered.
C27_TerminatesWithinTotalNeededNonNegative ==
    /\ <>PlateCallEnded
    /\ [](PlateCallEnded => (pc = "returned" <=> ret # NoReturn)
                            /\ (pc = "raised" <=> err # NoError))
    /\ [](locals.writes <= (IF ArgsTotalNeeded >= 0 THEN ArgsTotalNeeded ELSE 0))
    /\ [](PlacementLoopEntered => ArgsTotalNeeded <= locals.rows * locals.cols)

C27_Witness ==
    /\ PlateCallEnded
    /\ PlacementLoopEntered
    /\ locals.writes = ArgsTotalNeeded
    /\ locals.writes > 2 * locals.rows

(***************************************************************************)
(*              More claims about calculate_mastermix                      *)
(***************************************************************************)

\* One line of a component table as the claim states it: a percentage of
\* the reaction volume, or a fixed volume in hundredths of a microliter.
TableLine(name, fixed, hundredths) ==
    [name |-> name, fixed |-> fixed, hundredths |-> hundredths]

StatedTaqTable ==
    <<TableLine("10X Buffer", FALSE, 10),
      TableLine("dNTPs (10 mM each)", FALSE, 2),
      TableLine("Forward Primer (10 uM)", FALSE, 2),
      TableLine("Reverse Primer (10 uM)", FALSE, 2),
      TableLine("Taq Polymerase (5 U/uL)", TRUE, 25),
      TableLine("MgCl2 (25 mM)", FALSE, 6)>>

StatedHighFidelityTable ==
    <<TableLine("5X HF Buffer", FALSE, 20),
      TableLine("dNTPs (10 mM each)", FALSE, 2),
      TableLine("Forward Primer (10 uM)", FALSE, 2),
      TableLine("Reverse Primer (10 uM)", FALSE, 2),
      TableLine("HF Polymerase (2 U/uL)", TRUE, 50)>>

StatedTemplateLine == TableLine("Template DNA", TRUE, 100)

\* the table the claim states for the call at hand
StatedTable ==
    LET kind == IF args.polymerase_type = "taq"
                THEN StatedTaqTable ELSE StatedHighFidelityTable
    IN IF args.include_template THEN Append(kind, StatedTemplateLine) ELSE kind

\* the per-reaction volume of a table line, as a float
StatedVolume(line, volume) ==
    IF line.fixed
    THEN FloatOfDecimal(line.hundredths, 100)
    ELSE FMul(volume, FloatOfDecimal(line.hundredths, 100))

StatedVolumes ==
    [i \in 1 .. Len(StatedTable) |-> StatedVolume(StatedTable[i], args.volume)]

NamesOf(components) == {components[i].name : i \in DOMAIN components}

\* C26: a returned master mix holds the components of the table of its
\* kind, in the table's order and with the table's per-reaction volumes
\* (10%, 2%, 2%, 2% of volume, a fixed 0.25 and 6% of volume for taq; 20%,
\* 2%, 2%, 2% of volume and a fixed 0.5, without MgCl2, for high_fidelity),
\* then exactly one template component of volume 1 if include_template,
\* then Water with volume minus the sum of the others.
C26_ComponentTables ==
    pc = "returned" =>
      LET comps == ret[1].components
          n == Len(StatedTable)
      IN /\ Len(comps) = n + 1
         /\ \A i \in 1 .. n :
               /\ comps[i].name = StatedTable[i].name
               /\ FEq(comps[i].per_reaction, StatedVolumes[i])
         /\ comps[n + 1].name = "Water"
         /\ FEq(comps[n + 1].per_reaction, FSub(args.volume, FSum(StatedVolumes)))
         /\ WithinRounding(ExactSum(StatedVolumes),
                           ExactAdd(args.volume, FNeg(comps[n + 1].per_reaction)),
                           args.volume)
         /\ "MgCl2 (25 mM)" \in NamesOf(comps) <=> args.polymerase_type = "taq"
         /\ Cardinality({i \in DOMAIN comps : comps[i].name = "Template DNA"})
               = (IF args.include_template THEN 1 ELSE 0)

C26_Witness ==
    /\ pc = "returned"
    /\ args.polymerase_type = "taq"
    /\ args.include_template
    /\ Len(ret[1].components) = 8
    /\ FLt(FZero, ret[1].components[8].per_reaction)
    /\ FEq(ret[1].components[6].per_reaction,
           FMul(args.volume, FloatOfDecimal(6, 100)))

C26_WitnessHighFidelity ==
    /\ pc = "returned"
    /\ args.polymerase_type = "high_fidelity"
    /\ ~args.include_template
    /\ Len(ret[1].components) = 6
    /\ FLt(FZero, ret[1].components[6].per_reaction)

(***************************************************************************)
(*                  More claims about the dilutions                        *)
(***************************************************************************)

\* C29: serial_dilution returns a series whenever factor > 1 and
\* transfer_volume < final_volume; its only failures are the factor error
\* and the transfer-volume error, and a returned series has
\* diluent_per_step = final_volume - transfer_volume > 0.
C29_OnlyTwoFailures ==
    /\ (pc \in {"returned", "raised"}
          /\ RatLt(One, args.factor)
          /\ RatLt(args.transfer_volume, args.final_volume)) =>
          /\ pc = "returned"
          /\ ret # NoReturn
          /\ err = NoError
    /\ pc = "raised" =>
          /\ err.kind = "ValueError"
          /\ err.msg \in {"Dilution factor must be greater than 1",
                          "Transfer volume must be less than final volume"}
    /\ pc = "returned" =>
          /\ RatEq(ret[1].volumes.diluent_per_step,
                   RatSub(args.final_volume, args.transfer_volume))
          /\ RatLt(Zero, ret[1].volumes.diluent_per_step)

(***************************************************************************)
(*                       create_dilution_series                            *)
(***************************************************************************)

MaxTargets == 3

\* dilutions.py 150-185: calculate_dilution as create_dilution_series calls
\* it, the exception it raises in err or the dict it returns in value
CalculateDilution(initial_conc, final_conc, final_volume) ==
    IF FinalExceedsInitial(final_conc, initial_conc)
    THEN [err |-> [kind |-> "ValueError",
                   msg |-> "Final concentration cannot exceed initial concentration"],
          value |-> <<>>]
    ELSE IF NotAllPositive(initial_conc, final_conc, final_volume)
    THEN [err |-> [kind |-> "ValueError", msg |-> "All values must be positive"],
          value |-> <<>>]
    ELSE LET stock_volume == StockVolume(initial_conc, final_conc, final_volume)
             diluent_volume == DiluentVolume(final_volume, stock_volume)
         IN [err |-> NoError,
             value |-> <<[stock_volume |-> Round2(stock_volume),
                          diluent_volume |-> Round2(diluent_volume),
                          final_volume |-> final_volume,
                          dilution_factor |-> RatDiv(initial_conc, final_conc)]>>]

\* x put into a list sorted from high to low, after the elements that are
\* not lower than x (the sort is stable)
RECURSIVE InsertDescending(_, _)
InsertDescending(sorted, x) ==
    IF sorted = <<>> THEN <<x>>
    ELSE IF RatLt(sorted[1], x) THEN <<x>> \o sorted
    ELSE <<sorted[1]>> \o InsertDescending(Tail(sorted), x)

RECURSIVE SortedReverseFrom(_, _, _)
SortedReverseFrom(values, i, acc) ==
    IF i > Len(values) THEN acc
    ELSE SortedReverseFrom(values, i + 1, InsertDescending(acc, values[i]))

SortedReverseUnsorted(values) == values

\* dilutions.py 216: sorted(target_concentrations, reverse=True)
SortedReverse(values) == SortedReverseFrom(values, 1, <<>>)

\* dilutions.py 217
TargetExceedsStock(target_conc, initial_conc) == RatLt(initial_conc, target_conc)

\* dilutions.py 223-225: the result dict with its three added keys
SeriesEntry(result, target_conc, concentration_unit) ==
    [stock_volume |-> result.stock_volume,
     diluent_volume |-> result.diluent_volume,
     final_volume |-> result.final_volume,
     dilution_factor |-> result.dilution_factor,
     concentration |-> target_conc,
     unit |-> concentration_unit,
     source |-> "stock"]

\* The target concentrations and volumes tried (see DilutionConcs for the
\* multiples of 5)
TargetConcs == {c \in 0 .. MaxConc : c % 5 # 0 \/ c = 0}

SeriesVolumes == {Rat(v, 8) : v \in {0, 1, 3, MaxVolumeEighths}}

SeriesLocals0 == [dilutions |-> <<>>, sorted |-> <<>>, i |-> 0]

\* A call create_dilution_series(initial_conc, target_concentrations,
\* final_volume, concentration_unit) with up to MaxTargets targets in any
\* order, repeated ones included.
InitSeries ==
    /\ args \in [initial_conc : {Rat(c, 1) : c \in DilutionConcs},
                 target_concentrations :
                     UNION {[1 .. n -> {Rat(c, 1) : c \in TargetConcs}] :
                                n \in 0 .. MaxTargets},
                 final_volume : SeriesVolumes,
                 concentration_unit : {"uM"}]
    /\ pc = "sort"
    /\ locals = SeriesLocals0
    /\ ret = NoReturn
    /\ err = NoError

\* dilutions.py 214-216: dilutions = [] and the sorted copy of the targets
SortTargets ==
    /\ pc = "sort"
    /\ locals' = [dilutions |-> <<>>,
                  sorted |-> SortedReverse(args.target_concentrations),
                  i |-> 0]
    /\ pc' = "for_target"
    /\ UNCHANGED <<args, ret, err>>

\* dilutions.py 216 and 228: the next target, or return dilutions
ForTarget ==
    /\ pc = "for_target"
    /\ IF locals.i < Len(locals.sorted)
       THEN /\ locals' = [locals EXCEPT !.i = @ + 1]
            /\ pc' = "check_target"
            /\ UNCHANGED ret
       ELSE /\ ret' = <<locals.dilutions>>
            /\ pc' = "returned"
            /\ UNCHANGED locals
    /\ UNCHANGED <<args, err>>

\* dilutions.py 217-220
CheckTarget ==
    /\ pc = "check_target"
    /\ IF TargetExceedsStock(locals.sorted[locals.i], args.initial_conc)
       THEN /\ pc' = "raised"
            /\ err' = [kind |-> "ValueError",
                       msg |-> "Target concentration exceeds stock concentration"]
       ELSE /\ pc' = "calculate"
            /\ UNCHANGED err
    /\ UNCHANGED <<args, locals, ret>>

\* dilutions.py 222-226: the call of calculate_dilution, whose exception
\* leaves create_dilution_series as it is
CalculateTarget ==
    /\ pc = "calculate"
    /\ LET target_conc == locals.sorted[locals.i]
           call == CalculateDilution(args.initial_conc, target_conc,
                                     args.final_volume)
       IN IF call.err # NoError
          THEN /\ pc' = "raised"
               /\ err' = call.err
               /\ UNCHANGED locals
          ELSE /\ pc' = "for_target"
               /\ locals' = [locals EXCEPT !.dilutions =
                     Append(@, SeriesEntry(call.value[1], target_conc,
                                           args.concentration_unit))]
               /\ UNCHANGED err
    /\ UNCHANGED <<args, ret>>

NextSeries ==
    \/ SortTargets
    \/ ForTarget
    \/ CheckTarget
    \/ CalculateTarget

SpecSeries == InitSeries /\ [][NextSeries]_vars

\* how often x occurs in a list
Occurrences(values, x) == Cardinality({i \in DOMAIN values : RatEq(values[i], x)})

AnyTargetExceedsStock ==
    \E i \in DOMAIN args.target_concentrations :
        RatLt(args.initial_conc, args.target_concentrations[i])

\* C22: create_dilution_series returns one entry per target concentration
\* (a repeated target as often as it is given), from the highest
\* concentration to the lowest whatever the order of the targets, each entry
\* holding what calculate_dilution returns for initial_conc, the target and
\* final_volume; when a target exceeds initial_conc the call fails and
\* returns nothing.
C22_OneEntryPerTargetDescending ==
    /\ pc = "returned" =>
        LET entries == ret[1] IN
          /\ Len(entries) = Len(args.target_concentrations)
          /\ \A i \in DOMAIN args.target_concentrations :
                Occurrences([j \in DOMAIN entries |-> entries[j].concentration],
                            args.target_concentrations[i])
                  = Occurrences(args.target_concentrations,
                                args.target_concentrations[i])
          /\ \A i \in 1 .. Len(entries) - 1 :
                RatLe(entries[i + 1].concentration, entries[i].concentration)
          /\ \A i \in DOMAIN entries :
                LET call == CalculateDilution(args.initial_conc,
                                              entries[i].concentration,
                                              args.final_volume)
                IN /\ call.err = NoError
                   /\ entries[i].stock_volume = call.value[1].stock_volume
                   /\ entries[i].diluent_volume = call.value[1].diluent_volume
                   /\ entries[i].final_volume = call.value[1].final_volume
                   /\ entries[i].dilution_factor = call.value[1].dilution_factor
    /\ (AnyTargetExceedsStock /\ pc \notin {"sort", "for_target", "check_target"}) =>
          /\ pc = "raised"
          /\ err.kind = "ValueError"
          /\ ret = NoReturn
          /\ locals.dilutions = <<>>
    /\ AnyTargetExceedsStock => pc # "returned"

C22_Witness ==
    /\ pc = "returned"
    /\ Len(ret[1]) = 3
    /\ RatLt(args.target_concentrations[1], args.target_concentrations[2])
    /\ RatLt(args.target_concentrations[3], args.target_concentrations[1])
    /\ RatLt(ret[1][2].concentration, ret[1][1].concentration)
    /\ RatLt(ret[1][3].concentration, ret[1][2].concentration)

C22_WitnessFails ==
    /\ pc = "raised"
    /\ AnyTargetExceedsStock
    /\ Len(args.target_concentrations) = 3
    /\ RatLe(args.target_concentrations[1], args.initial_conc)
    /\ RatLt(Zero, args.target_concentrations[1])

(***************************************************************************)
(*                        plate_based_dilution                             *)
(***************************************************************************)

MaxPlateDilutions == 13
MaxWellVolume == 2

RECURSIVE ConcentrationsFrom(_, _, _, _)
ConcentrationsFrom(concentrations, factor, actual_factor, steps) ==
    IF steps <= 0 THEN concentrations
    ELSE ConcentrationsFrom(
             Append(concentrations,
                    NextConcentration(concentrations[Len(concentrations)],
                                      factor, actual_factor)),
             factor, actual_factor, steps - 1)

\* dilutions.py 103-147: serial_dilution as plate_based_dilution calls it,
\* the exception it raises in err or the DilutionSeries it returns in value
SerialDilution(initial_concentration, factor, dilutions, transfer_volume, final_volume) ==
    IF FactorTooSmall(factor)
    THEN [err |-> [kind |-> "ValueError",
                   msg |-> "Dilution factor must be greater than 1"],
          value |-> <<>>]
    ELSE IF TransferTooLarge(transfer_volume, final_volume)
    THEN [err |-> [kind |-> "ValueError",
                   msg |-> "Transfer volume must be less than final volume"],
          value |-> <<>>]
    ELSE IF transfer_volume.n = 0
    THEN [err |-> [kind |-> "ZeroDivisionError", msg |-> "float division by zero"],
          value |-> <<>>]
    ELSE LET actual_factor == RatDiv(final_volume, transfer_volume)
             diluent_volume == RatSub(final_volume, transfer_volume)
             n == Rat(dilutions, 1)
         IN [err |-> NoError,
             value |-> <<[initial_concentration |-> initial_concentration,
                          dilution_factor |-> factor,
                          num_dilutions |-> dilutions,
                          transfer_volume |-> transfer_volume,
                          final_volume |-> final_volume,
                          concentrations |->
                              ConcentrationsFrom(<<initial_concentration>>, factor,
                                                 actual_factor, dilutions),
                          volumes |->
                             [transfer_per_step |-> transfer_volume,
                              diluent_per_step |-> diluent_volume,
                              total_diluent_needed |-> RatMul(diluent_volume, n),
                              total_transfers |-> RatMul(transfer_volume, n),
                              stock_volume_needed |-> transfer_volume]]>>]

Min(a, b) == IF a < b THEN a ELSE b

\* dilutions.py 273-274: the letters of the one column a vertical layout uses
DilutionRowLabels == <<"A", "B", "C", "D", "E", "F", "G", "H">>

\* dilutions.py 268-274: f"A{i}" for i in range(1, dilutions + 1), or
\* f"{row_labels[i]}1" for i in range(min(dilutions, 8)); a well is kept as
\* the pair of its letter and its number.
PlateWells(format, dilutions) ==
    IF format = "row"
    THEN [i \in 1 .. dilutions |-> <<"A", i>>]
    ELSE [i \in 1 .. Min(dilutions, 8) |-> <<DilutionRowLabels[i], 1>>]

WellsLocals0 ==
    [series |-> <<>>, wells |-> <<>>, well_assignments |-> <<>>, i |-> 0]

\* A call plate_based_dilution(initial_conc, factor, dilutions,
\* volume_per_well, concentration_unit, format); factor is a number of
\* halves, dilutions any int and format any string (every format but "row"
\* is laid out as a column).
InitWells ==
    /\ args \in [initial_conc : {Rat(c, 1) : c \in {0, 1, MaxConc}},
                 factor : {Rat(f, 2) : f \in 0 .. MaxFactorHalves},
                 dilutions : (-1) .. MaxPlateDilutions,
                 volume_per_well : {Rat(v, 1) : v \in (-1) .. MaxWellVolume},
                 concentration_unit : {"uM"},
                 format : {"row", "column", "diagonal"}]
    /\ pc = "series"
    /\ locals = WellsLocals0
    /\ ret = NoReturn
    /\ err = NoError

\* dilutions.py 258-265: the argument volume_per_well / factor, then the
\* call of serial_dilution, whose exception leaves plate_based_dilution
CallSerialDilution ==
    /\ pc = "series"
    /\ IF args.factor.n = 0
       THEN /\ pc' = "raised"
            /\ err' = [kind |-> "ZeroDivisionError", msg |-> "float division by zero"]
            /\ UNCHANGED locals
       ELSE LET call == SerialDilution(args.initial_conc, args.factor,
                                       args.dilutions - 1,
                                       RatDiv(args.volume_per_well, args.factor),
                                       args.volume_per_well)
            IN IF call.err # NoError
               THEN /\ pc' = "raised"
                    /\ err' = call.err
                    /\ UNCHANGED locals
               ELSE /\ pc' = "wells"
                    /\ locals' = [locals EXCEPT !.series = call.value]
                    /\ UNCHANGED err
    /\ UNCHANGED <<args, ret>>

\* dilutions.py 268-277
BuildWells ==
    /\ pc = "wells"
    /\ locals' = [locals EXCEPT !.wells = PlateWells(args.format, args.dilutions),
                                !.well_assignments = <<>>,
                                !.i = 0]
    /\ pc' = "assign"
    /\ UNCHANGED <<args, ret, err>>

\* dilutions.py 278-283: one iteration over zip(wells, series.concentrations),
\* which ends with the shorter of the two
AssignWell ==
    /\ pc = "assign"
    /\ IF locals.i < Min(Len(locals.wells), Len(locals.series[1].concentrations))
       THEN /\ locals' = [locals EXCEPT
                   !.well_assignments =
                       (locals.wells[locals.i + 1] :>
                           [concentration |->
                                locals.series[1].concentrations[locals.i + 1],
                            unit |-> args.concentration_unit,
                            dilution_step |-> locals.i])
                       @@ [w \in DOMAIN @ \ {locals.wells[locals.i + 1]} |-> @[w]],
                   !.i = @ + 1]
            /\ pc' = "assign"
       ELSE /\ pc' = "instructions"
            /\ UNCHANGED locals
    /\ UNCHANGED <<args, ret, err>>

\* dilutions.py 286-300: the instructions name wells[0], wells[1] and
\* wells[-1]; with fewer than two wells the index raises IndexError.
WriteInstructions ==
    /\ pc = "instructions"
    /\ IF Len(locals.wells) < 2
       THEN /\ pc' = "raised"
            /\ err' = [kind |-> "IndexError", msg |-> "list index out of range"]
            /\ UNCHANGED ret
       ELSE /\ pc' = "returned"
            /\ ret' = <<[series |-> locals.series[1],
                         wells |-> locals.wells,
                         well_assignments |-> locals.well_assignments,
                         format |-> args.format,
                         instructions |->
                            [stock_volume |-> args.volume_per_well,
                             stock_well |-> locals.wells[1],
                             diluent_volume |->
                                 RatSub(args.volume_per_well,
                                        locals.series[1].transfer_volume),
                             first_diluent_well |-> locals.wells[2],
                             last_well |-> locals.wells[Len(locals.wells)],
                             transfer_volume |-> locals.series[1].transfer_volume]]>>
            /\ UNCHANGED err
    /\ UNCHANGED <<args, locals>>

NextWells ==
    \/ CallSerialDilution
    \/ BuildWells
    \/ AssignWell
    \/ WriteInstructions

SpecWells == InitWells /\ [][NextWells]_vars

\* a well of the 96-well plate: row A-H, column 1-12
OnPlate96(well) ==
    /\ well[1] \in {"A", "B", "C", "D", "E", "F", "G", "H"}
    /\ well[2] \in 1 .. 12

\* C30: for dilutions >= 1 and factor > 1 (and a positive volume per well),
\* in the row and in the column format, plate_based_dilution returns without
\* error, its series has `dilutions` concentrations, each assigned to its
\* own well in the order of the series, and every well named is a well of
\* the 96-well plate.
C30_EveryConcentrationOnPlate ==
    (/\ pc \in {"returned", "raised"}
     /\ args.dilutions >= 1
     /\ RatLt(One, args.factor)
     /\ RatLt(Zero, args.volume_per_well)
     /\ args.format \in {"row", "column"}) =>
        /\ pc = "returned"
        /\ err = NoError
        /\ Len(ret[1].series.concentrations) = args.dilutions
        /\ Len(ret[1].wells) = args.dilutions
        /\ \A i, j \in DOMAIN ret[1].wells :
              ret[1].wells[i] = ret[1].wells[j] => i = j
        /\ \A i \in DOMAIN ret[1].wells :
              /\ OnPlate96(ret[1].wells[i])
              /\ ret[1].wells[i] \in DOMAIN ret[1].well_assignments
              /\ ret[1].well_assignments[ret[1].wells[i]].dilution_step = i - 1
              /\ ret[1].well_assignments[ret[1].wells[i]].concentration
                    = ret[1].series.concentrations[i]
        /\ DOMAIN ret[1].well_assignments
              = {ret[1].wells[i] : i \in DOMAIN ret[1].wells}

(***************************************************************************)
(*                   Calculator calls run concurrently                     *)
(* Two calls run as two threads whose steps interleave.  args, pc, ret and *)
(* err hold one entry per thread.  locals holds what the threads could     *)
(* share: the module-level COMMON_BUFFERS and the heap of the objects      *)
(* (lists and dicts) the calls create, next to the local variables of each *)
(* thread (frames), which hold references into the heap.                   *)
(***************************************************************************)

Threads == {1, 2}

MaxThreadGenes == 2
MaxThreadReplicates == 2

ThreadCallEnded(p) == p \in {"returned", "raised"}

NewObjectShared(heap, kind) ==
    IF \E r \in DOMAIN heap : heap[r].kind = kind
    THEN CHOOSE r \in DOMAIN heap : heap[r].kind = kind
    ELSE Len(heap) + 1

\* pcr.py 302-303, buffers.py 64: a list display, a list comprehension or a
\* dict display makes a new object, one that no other reference leads to
NewObject(heap, kind) == Len(heap) + 1

\* the heap after the object at ref has been set up
Stored(heap, ref, kind, value) ==
    IF ref > Len(heap)
    THEN Append(heap, [kind |-> kind, value |-> value])
    ELSE [heap EXCEPT ![ref] = [kind |-> kind, value |-> value]]

\* what one step of a call leaves behind
Outcome(p, l, r, e, heap) ==
    [pc |-> p, locals |-> l, ret |-> r, err |-> e, heap |-> heap]

\* the local variables of a call before its first step; layout,
\* well_assignments and scaled are references into the heap (0: unset)
ThreadLocals0 ==
    [rows |-> 0, cols |-> 0, row_labels |-> <<>>,
     wells_per_gene |-> 0, total_wells_needed |-> 0, available_wells |-> 0,
     layout |-> 0, well_assignments |-> 0,
     current_row |-> 0, current_col |-> 0,
     gene_i |-> 0, sample_i |-> 0, rep |-> 0,
     buffer_key |-> <<>>, scaled |-> 0, item |-> 0]

\* pcr.py 278-367: one step of generate_qpcr_plate_layout, the steps being
\* those of SpecPlate
PlateThreadStep(a, p, l, r, e, heap) ==
    IF p = "plate_size"
    THEN LET g == PlateGeometry(a.plate_size) IN
           IF g.rows = 0
           THEN Outcome("raised", l, r,
                        [kind |-> "ValueError", msg |-> "Plate size must be 96 or 384"],
                        heap)
           ELSE Outcome("capacity",
                        [l EXCEPT !.rows = g.rows, !.cols = g.cols,
                                  !.row_labels = g.row_labels],
                        r, e, heap)
    ELSE IF p = "capacity"
    THEN LET wpg == WellsPerGene(a.samples, a.replicates, a.include_ntc)
             total == TotalWellsNeeded(a.samples, a.genes, a.replicates, a.include_ntc)
             avail == l.rows * l.cols
             layout == NewObject(heap, "layout")
             heap1 == Stored(heap, layout, "layout", EmptyLayout(l.rows, l.cols))
             well_assignments == NewObject(heap1, "well_assignments")
             heap2 == Stored(heap1, well_assignments, "well_assignments", <<>>)
         IN IF NotEnoughWells(total, avail)
            THEN Outcome("raised",
                         [l EXCEPT !.wells_per_gene = wpg,
                                   !.total_wells_needed = total,
                                   !.available_wells = avail],
                         r, [kind |-> "ValueError", msg |-> "Not enough wells"], heap)
            ELSE Outcome("for_gene",
                         [l EXCEPT !.wells_per_gene = wpg,
                                   !.total_wells_needed = total,
                                   !.available_wells = avail,
                                   !.layout = layout,
                                   !.well_assignments = well_assignments,
                                   !.current_col = 0,
                                   !.current_row = 0,
                                   !.gene_i = 0],
                         r, e, heap2)
    ELSE IF p = "for_gene"
    THEN IF l.gene_i < Len(a.genes)
         THEN Outcome("for_sample", [l EXCEPT !.gene_i = @ + 1, !.sample_i = 0],
                      r, e, heap)
         ELSE Outcome("summary", l, r, e, heap)
    ELSE IF p = "for_sample"
    THEN IF l.sample_i < Len(a.samples)
         THEN Outcome("for_rep", [l EXCEPT !.sample_i = @ + 1, !.rep = 0], r, e, heap)
         ELSE IF a.include_ntc
         THEN Outcome("for_ntc_rep", [l EXCEPT !.rep = 0], r, e, heap)
         ELSE Outcome("next_gene", l, r, e, heap)
    ELSE IF p \in {"for_rep", "for_ntc_rep"}
    THEN IF l.rep < a.replicates
         THEN LET cur == WrapCursor(l.current_row, l.current_col, l.rows)
                  well_id == WellId(l.row_labels, cur.row, cur.col)
                  sample == IF p = "for_rep" THEN a.samples[l.sample_i] ELSE NTC
                  gene == a.genes[l.gene_i]
                  moved == [l EXCEPT !.current_row = cur.row, !.current_col = cur.col]
              IN IF cur.col >= l.cols
                 THEN Outcome("raised", moved, r,
                              IF p = "for_rep"
                              THEN [kind |-> "ValueError",
                                    msg |-> "Exceeded plate capacity"]
                              ELSE [kind |-> "IndexError",
                                    msg |-> "list assignment index out of range"],
                              heap)
                 ELSE Outcome(p,
                              [moved EXCEPT !.current_row = cur.row + 1, !.rep = @ + 1],
                              r, e,
                              [heap EXCEPT
                                 ![l.layout].value =
                                     [@ EXCEPT ![<<cur.row, cur.col>>] =
                                          <<sample, gene, l.rep + 1>>],
                                 ![l.well_assignments].value =
                                     (well_id :> [sample |-> sample, gene |-> gene,
                                                  replicate |-> l.rep + 1,
                                                  type |-> IF p = "for_rep"
                                                           THEN "sample" ELSE "ntc"])
                                     @@ @])
         ELSE Outcome(IF p = "for_rep" THEN "for_sample" ELSE "next_gene",
                      l, r, e, heap)
    ELSE IF p = "next_gene"
    THEN LET cur == NextGeneCursor(l.current_row, l.current_col) IN
           Outcome("for_gene",
                   [l EXCEPT !.current_row = cur.row, !.current_col = cur.col],
                   r, e, heap)
    ELSE Outcome("returned", l,
                 <<[layout |-> l.layout,
                    well_assignments |-> l.well_assignments,
                    summary |-> [total_samples |-> Len(a.samples),
                                 total_genes |-> Len(a.genes),
                                 replicates |-> a.replicates,
                                 include_ntc |-> a.include_ntc,
                                 wells_used |->
                                     Cardinality(DOMAIN heap[l.well_assignments].value),
                                 wells_available |-> l.available_wells],
                    row_labels |-> l.row_labels,
                    col_labels |-> [i \in 1 .. l.cols |-> i]]>>,
                 e, heap)

\* buffers.py 64-70: one step of self.scale(volume_liters), self being the
\* recipe of catalog entry a.self; scaled = {}, then one component per step
ScaleThreadStep(a, p, l, r, e, catalog, heap) ==
    IF p = "scale_new"
    THEN LET scaled == NewObject(heap, "scaled") IN
           Outcome("scale_item", [l EXCEPT !.scaled = scaled, !.item = 0], r, e,
                   Stored(heap, scaled, "scaled", <<>>))
    ELSE LET components == catalog[a.self].recipe.components IN
           IF l.item < Len(components)
           THEN LET data == components[l.item + 1] IN
                  Outcome("scale_item", [l EXCEPT !.item = @ + 1], r, e,
                          [heap EXCEPT ![l.scaled].value =
                              Append(@, [component |-> data.component,
                                         amount |-> FMul(data.amount, a.volume_liters),
                                         unit |-> data.unit])])
           ELSE Outcome("returned", l, <<l.scaled>>, e, heap)

\* buffers.py 253-259: one step of get_buffer_recipe; it returns the
\* catalog's object, here the index of its entry
GetThreadStep(a, p, l, r, e, catalog, heap) ==
    IF p = "upper"
    THEN Outcome("lookup", [l EXCEPT !.buffer_key = Upper(a.buffer_name)], r, e, heap)
    ELSE IF ~HasKey(catalog, l.buffer_key)
    THEN Outcome("raised", l, r,
                 [kind |-> "ValueError", msg |-> "Unknown buffer"], heap)
    ELSE Outcome("returned", l, <<KeyIndex(catalog, l.buffer_key)>>, e, heap)

\* one step of a call, whichever calculator it is a call of
ThreadStep(a, p, l, r, e, catalog, heap) ==
    IF a.op = "generate_qpcr_plate_layout" THEN PlateThreadStep(a, p, l, r, e, heap)
    ELSE IF a.op = "scale" THEN ScaleThreadStep(a, p, l, r, e, catalog, heap)
    ELSE GetThreadStep(a, p, l, r, e, catalog, heap)

\* where a call starts
StartPc(a) ==
    IF a.op = "generate_qpcr_plate_layout" THEN "plate_size"
    ELSE IF a.op = "scale" THEN "scale_new"
    ELSE "upper"

ThreadCall(op, samples, genes, replicates, include_ntc, plate_size, self, volume_liters, buffer_name) ==
    [op |-> op, samples |-> samples, genes |-> genes, replicates |-> replicates,
     include_ntc |-> include_ntc, plate_size |-> plate_size,
     self |-> self, volume_liters |-> volume_liters, buffer_name |-> buffer_name]

\* The calls a thread may make: plate layouts of one sample on a 96-well
\* plate (and one on an unsupported plate), PBS scaled to a volume, and the
\* lookup of a buffer name.
ThreadCalls ==
    {ThreadCall("generate_qpcr_plate_layout", <<SampleName(1)>>,
                [i \in 1 .. g |-> GeneName(i)], rep, include_ntc, plate_size,
                0, FZero, <<>>) :
        g \in 0 .. MaxThreadGenes, rep \in 1 .. MaxThreadReplicates,
        include_ntc \in BOOLEAN, plate_size \in {96}}
    \cup {ThreadCall("generate_qpcr_plate_layout", <<SampleName(1)>>,
                     <<GeneName(1)>>, 1, TRUE, 48, 0, FZero, <<>>)}
    \cup {ThreadCall("scale", <<>>, <<>>, 0, FALSE, 0, 1, v, <<>>) :
              v \in SessionLiterVolumes}
    \cup {ThreadCall("get_buffer_recipe", <<>>, <<>>, 0, FALSE, 0, 0, FZero, name) :
              name \in BufferNames}

InitConcurrent ==
    /\ args \in {<<a, b>> : a \in ThreadCalls, b \in ThreadCalls}
    /\ pc = [t \in Threads |-> StartPc(args[t])]
    /\ locals = [COMMON_BUFFERS |-> COMMON_BUFFERS,
                 heap |-> <<>>,
                 frames |-> [t \in Threads |-> ThreadLocals0]]
    /\ ret = [t \in Threads |-> NoReturn]
    /\ err = [t \in Threads |-> NoError]

\* thread t takes the next step of its call
StepOf(t) ==
    /\ ~ThreadCallEnded(pc[t])
    /\ LET s == ThreadStep(args[t], pc[t], locals.frames[t], ret[t], err[t],
                           locals.COMMON_BUFFERS, locals.heap)
       IN /\ pc' = [pc EXCEPT ![t] = s.pc]
          /\ locals' = [locals EXCEPT !.frames[t] = s.locals, !.heap = s.heap]
          /\ ret' = [ret EXCEPT ![t] = s.ret]
          /\ err' = [err EXCEPT ![t] = s.err]
    /\ UNCHANGED args

PlateThread(t) == args[t].op = "generate_qpcr_plate_layout" /\ StepOf(t)

ScaleThread(t) == args[t].op = "scale" /\ StepOf(t)

GetThread(t) == args[t].op = "get_buffer_recipe" /\ StepOf(t)

NextConcurrent ==
    \E t \in Threads :
        \/ PlateThread(t)
        \/ ScaleThread(t)
        \/ GetThread(t)

SpecConcurrent == InitConcurrent /\ [][NextConcurrent]_vars

\* what a call has come to: how it ended and, for a call that returned, the
\* value it returned, with every reference followed
Result(a, p, r, e, catalog, heap) ==
    [pc |-> p,
     err |-> e,
     value |->
        IF p # "returned" THEN <<>>
        ELSE IF a.op = "generate_qpcr_plate_layout"
        THEN <<[layout |-> heap[r[1].layout].value,
                well_assignments |-> heap[r[1].well_assignments].value,
                summary |-> r[1].summary,
                row_labels |-> r[1].row_labels,
                col_labels |-> r[1].col_labels]>>
        ELSE IF a.op = "scale" THEN <<heap[r[1]].value>>
        ELSE <<catalog[r[1]].recipe>>]

RECURSIVE RunFrom(_, _, _, _, _, _, _)
RunFrom(a, p, l, r, e, catalog, heap) ==
    IF ThreadCallEnded(p) THEN Result(a, p, r, e, catalog, heap)
    ELSE LET s == ThreadStep(a, p, l, r, e, catalog, heap) IN
           RunFrom(a, s.pc, s.locals, s.ret, s.err, catalog, s.heap)

\* the result of the call run alone, from a module just loaded
RunAlone(a) ==
    RunFrom(a, StartPc(a), ThreadLocals0, NoReturn, NoError, COMMON_BUFFERS, <<>>)

\* C21: whatever the interleaving of the steps of two calls, a call that
\* has ended has the result it has when it runs alone, and keeps it while
\* the other call goes on; COMMON_BUFFERS, the one object both can reach,
\* is never written.
C21_CallsIndependent ==
    /\ locals.COMMON_BUFFERS = COMMON_BUFFERS
    /\ \A t \in Threads :
          ThreadCallEnded(pc[t]) =>
              /\ Result(args[t], pc[t], ret[t], err[t],
                        locals.COMMON_BUFFERS, locals.heap) = RunAlone(args[t])
              /\ (args[t].op = "scale" /\ pc[t] = "returned") =>
                    locals.heap[ret[t][1]].value
                        = Scale(RecipeAt(COMMON_BUFFERS, args[t].self).components,
                                args[t].volume_liters)

\* two plate layouts under way at once: thread 2 created its layout first,
\* thread 1 has returned, and thread 2 is still placing wells
C21_Witness ==
    /\ args[1].op = "generate_qpcr_plate_layout"
    /\ args[2].op = "generate_qpcr_plate_layout"
    /\ pc[1] = "returned"
    /\ pc[2] = "for_ntc_rep"
    /\ locals.frames[2].layout > 0
    /\ locals.frames[2].layout < locals.frames[1].layout
    /\ ret[1][1].summary.wells_used >= 2
    /\ DOMAIN locals.heap[locals.frames[2].well_assignments].value # {}

\* a scale call and a get_buffer_recipe call interleaved
C21_WitnessBuffers ==
    /\ args[1].op = "scale"
    /\ args[2].op = "get_buffer_recipe"
    /\ pc[1] = "scale_item"
    /\ locals.frames[1].item >= 2
    /\ pc[2] = "returned"

\* The steps of PlateThreadStep are those of SpecPlate: a call of SpecPlate
\* that has ended has the result that RunAlone computes for its arguments.
PlateThreadStepAgreesWithCall ==
    pc \in {"returned", "raised"} =>
        LET alone == RunAlone(ThreadCall("generate_qpcr_plate_layout",
                                         args.samples, args.genes, args.replicates,
                                         args.include_ntc, args.plate_size,
                                         0, FZero, <<>>))
        IN /\ alone.pc = pc
           /\ alone.err = err
           /\ alone.value = ret

====
